---- MODULE Spec2Model ----
(***************************************************************************)
(* A model of the tmuxai agent core: the MCP tool-client registry          *)
(* (McpClient), the Manager's /mcp server selection, the slash-command     *)
(* surface with its session overrides, and the action dispatcher with its  *)
(* confirmation policy.                                                    *)
(*                                                                         *)
(* Server names are the strings of ServerNames.  A connection is a number: *)
(* its index in conns, the list of every *client.Client that a bring-up    *)
(* has started.  A registry object (a *McpClient) is a number too: its     *)
(* index in regs; Manager.McpClient holds the index of the current one.    *)
(* The remote side is the environment: a remote request is issued in one   *)
(* step and answered in a later one, or never.  A call made under a        *)
(* context with a timeout ends by that timeout at the latest; a call made  *)
(* without one ends only by an answer, and when the server gives none the  *)
(* caller stays in that call for good (the pc values ending in _hung).     *)
(***************************************************************************)
EXTENDS Integers, Sequences, FiniteSets, TLC

\* ------------------------------------------------------------------ bounds
NumReaders == 1
MaxSelect == 2
MaxCommands == 2
MaxCycles == 3
MaxCapture == 5
MaxKeys == 5
ConfiguredCeiling == 3

\* --------------------------------------------------------------- processes
Manager == 0
Readers == 1..NumReaders
Procs == {Manager} \cup Readers

VARIABLES
    Config,            \* *config.Config, fixed after load
    McpServers,        \* Manager.McpServers: the selected specs
    McpClient,         \* Manager.McpClient: index in regs of the current registry
    regs,              \* every McpClient object built so far
    conns,             \* every client a bring-up has started
    pc,                \* position of each process in its code
    call,              \* the ListTools/CallTool invocation each process runs
    mgr,               \* locals of the Manager's running handler
    nsel,              \* number of /mcp selections made
    ncmd,              \* number of command lines processed
    command,           \* the command line processed last
    SessionOverrides,  \* Manager.SessionOverrides: config key -> session value
    report,            \* what the Manager printed last
    decision,          \* the AIResponse being applied
    pos,               \* the next item of it to dispatch
    attempts,          \* the items dispatched so far, each with its outcome
    muxCalls,          \* the calls issued to the terminal multiplexer for it
    Messages,          \* Manager.Messages: the chat history
    Status,            \* Manager.Status
    WatchMode,         \* Manager.WatchMode
    cycle,             \* the decision cycle in progress
    capture,           \* the text of the exec pane, segment by segment
    ExecHistory,       \* Manager.ExecHistory: the commands parsed from it
    gui                \* the selection widget while InteractiveSelect runs

\* the state outside the registry
sessionVars == <<Messages, Status, WatchMode, cycle>>

\* the exec pane and what was read from it
paneVars == <<capture, ExecHistory>>

agentVars == <<ncmd, command, SessionOverrides, report, decision, pos, attempts, muxCalls,
               Messages, Status, WatchMode, cycle, capture, ExecHistory>>

vars == <<Config, McpServers, McpClient, regs, conns, pc, call, mgr, nsel, ncmd,
          command, SessionOverrides, report, decision, pos, attempts, muxCalls,
          Messages, Status, WatchMode, cycle, capture, ExecHistory, gui>>

\* ------------------------------------------------------------------- maps
EmptyMap == [n \in {} |-> 0]

MapPut(m, k, v) == [x \in (DOMAIN m) \cup {k} |-> IF x = k THEN v ELSE m[x]]

Range(s) == {s[i] : i \in DOMAIN s}

RECURSIVE Orderings(_)
\* every sequence that lists each element of S once
Orderings(S) ==
    IF S = {} THEN {<<>>}
    ELSE UNION {{<<x>> \o t : t \in Orderings(S \ {x})} : x \in S}

\* ------------------------------------------------------------------ text
\* A string is the sequence of its characters; a command line is the
\* sequence of its words (strings.Fields).
UpperChars == <<"A", "B", "C", "D", "E", "F", "G", "H", "I", "J", "K", "L", "M",
                "N", "O", "P", "Q", "R", "S", "T", "U", "V", "W", "X", "Y", "Z">>
LowerChars == <<"a", "b", "c", "d", "e", "f", "g", "h", "i", "j", "k", "l", "m",
                "n", "o", "p", "q", "r", "s", "t", "u", "v", "w", "x", "y", "z">>
Digits == <<"0", "1", "2", "3", "4", "5", "6", "7", "8", "9">>

\* the lower-case letter of each upper-case letter
LowerOf ==
    [u \in Range(UpperChars) |->
        LowerChars[CHOOSE i \in DOMAIN UpperChars : UpperChars[i] = u]]

ToLowerChar(c) == IF c \in DOMAIN LowerOf THEN LowerOf[c] ELSE c

\* strings.ToLower
ToLower(w) == [i \in DOMAIN w |-> ToLowerChar(w[i])]

\* strings.HasPrefix(str, prefix)
HasPrefix(str, prefix) ==
    /\ Len(prefix) <= Len(str)
    /\ \A i \in DOMAIN prefix : str[i] = prefix[i]

IsDigit(c) == \E i \in DOMAIN Digits : Digits[i] = c

DigitValue(c) == (CHOOSE i \in DOMAIN Digits : Digits[i] = c) - 1

S_help == <<"/", "h", "e", "l", "p">>
S_info == <<"/", "i", "n", "f", "o">>
S_prepare == <<"/", "p", "r", "e", "p", "a", "r", "e">>
S_clear == <<"/", "c", "l", "e", "a", "r">>
S_reset == <<"/", "r", "e", "s", "e", "t">>
S_exit == <<"/", "e", "x", "i", "t">>
S_squash == <<"/", "s", "q", "u", "a", "s", "h">>
S_watch == <<"/", "w", "a", "t", "c", "h">>
S_w == <<"/", "w">>
S_config == <<"/", "c", "o", "n", "f", "i", "g">>
S_mcp == <<"/", "m", "c", "p">>
S_get == <<"g", "e", "t">>
S_set == <<"s", "e", "t">>
K_max_capture_lines == <<"m", "a", "x", "_", "c", "a", "p", "t", "u", "r", "e", "_", "l", "i", "n", "e", "s">>
K_max_context_size == <<"m", "a", "x", "_", "c", "o", "n", "t", "e", "x", "t", "_", "s", "i", "z", "e">>
K_wait_interval == <<"w", "a", "i", "t", "_", "i", "n", "t", "e", "r", "v", "a", "l">>
K_send_keys_confirm == <<"s", "e", "n", "d", "_", "k", "e", "y", "s", "_", "c", "o", "n", "f", "i", "r", "m">>
K_paste_multiline_confirm == <<"p", "a", "s", "t", "e", "_", "m", "u", "l", "t", "i", "l", "i", "n", "e", "_", "c", "o", "n", "f", "i", "r", "m">>
K_exec_confirm == <<"e", "x", "e", "c", "_", "c", "o", "n", "f", "i", "r", "m">>
K_openrouter_model == <<"o", "p", "e", "n", "r", "o", "u", "t", "e", "r", ".", "m", "o", "d", "e", "l">>
K_debug == <<"d", "e", "b", "u", "g">>
K_api_key == <<"o", "p", "e", "n", "r", "o", "u", "t", "e", "r", ".", "a", "p", "i", "_", "k", "e", "y">>
K_whitelist == <<"w", "h", "i", "t", "e", "l", "i", "s", "t", "_", "p", "a", "t", "t", "e", "r", "n", "s">>
W_5 == <<"5">>
W_12a == <<"1", "2", "a">>
W_true == <<"t", "r", "u", "e">>
W_True == <<"T", "r", "u", "e">>
W_Gpt4 == <<"G", "p", "t", "4">>
W_Exec_Confirm == <<"E", "x", "e", "c", "_", "C", "o", "n", "f", "i", "r", "m">>
W_cfg == <<"/", "c", "f", "g">>
W_Conf == <<"/", "C", "o", "n", "f">>
W_del == <<"d", "e", "l">>
W_Set == <<"S", "e", "t">>
W_false == <<"f", "a", "l", "s", "e">>
W_logs == <<"l", "o", "g", "s">>
W_Logs == <<"L", "o", "g", "s">>
W_slash == <<"/">>
W_c == <<"/", "c">>
W_HELP == <<"/", "H", "E", "L", "P">>
W_helpx == <<"/", "h", "e", "l", "p", "x">>
DefaultModel == <<"g", "o", "o", "g", "l", "e", "/", "g", "e", "m", "i", "n", "i", "-", "f", "l", "a", "s", "h", "-", "1", ".", "5">>

\* ----------------------------------------------------------- configuration
ServerNames == {"a", "b"}

SupportedTypes == {"stdio", "sse", "streamable-http", "streamableHTTP", "http"}

\* transports whose constructor returns an error value
FallibleTypes == {"sse", "streamable-http", "streamableHTTP", "http"}

McpServer(n, t) == [Name |-> n, Type |-> t]

\* the server lists a configuration file may hold
McpConfigs ==
    { <<>>,
      <<McpServer("a", "stdio"), McpServer("b", "sse")>>,
      <<McpServer("a", "grpc"), McpServer("b", "http")>> }

\* two servers of supported transports
McpConfigs2 == <<McpServer("a", "stdio"), McpServer("b", "sse")>>

DefaultConfig(servers) ==
    [ MaxCaptureLines |-> 200, MaxContextSize |-> 20000, WaitInterval |-> 5,
      SendKeysConfirm |-> TRUE, PasteMultilineConfirm |-> TRUE, ExecConfirm |-> TRUE,
      WhitelistPatterns |-> <<>>, BlacklistPatterns |-> <<>>,
      Model |-> DefaultModel,
      McpServers |-> servers ]

\* the configurations the registry is studied under
RegistryConfigs == {DefaultConfig(s) : s \in McpConfigs}

\* findMcpServer: the first configured server of that name
findMcpServer(cfg, name) ==
    LET hits == {i \in DOMAIN cfg.McpServers : cfg.McpServers[i].Name = name}
    IN  IF hits = {} THEN <<>>
        ELSE <<cfg.McpServers[CHOOSE i \in hits : \A j \in hits : i <= j]>>

RECURSIVE updatedMcpServers(_, _)
\* the specs of the chosen names, in the order chosen, unknown names dropped
updatedMcpServers(cfg, names) ==
    IF names = <<>> THEN <<>>
    ELSE findMcpServer(cfg, Head(names)) \o updatedMcpServers(cfg, Tail(names))

\* --------------------------------------------------------------- registry
\* a McpClient object: the map, its RWMutex, and what NewMcpClient was given
\* (closed: what Close() has returned on it, "no" before it has)
NewRegistry(clients, specs) ==
    [ clients |-> clients, writer |-> FALSE, readers |-> {},
      specs |-> specs, closed |-> "no" ]

NoCall == [op |-> "none", server |-> "", mc |-> 0, client |-> 0,
           result |-> "none", issued |-> FALSE, absent |-> FALSE,
           afterClose |-> FALSE, tool |-> "", args |-> EmptyMap,
           request |-> [Name |-> "", Arguments |-> EmptyMap]]

IdleMgr == [task |-> "none", queue |-> {}, cur |-> "", held |-> {}, failed |-> {},
            servers |-> <<>>, i |-> 1, clients |-> EmptyMap, outcome |-> <<>>,
            conn |-> 0, cancelled |-> FALSE]

\* mc.mu.RLock(): granted while no writer holds the lock
CanRLock(reg) == ~reg.writer

\* mc.mu.Lock(): granted while nobody holds the lock
CanLock(reg) == ~reg.writer /\ reg.readers = {}

\* client, exists := mc.clients[serverName]   (0: not exists)
LookupClient(clients, serverName) ==
    IF serverName \in DOMAIN clients THEN clients[serverName] ELSE 0

\* no AIResponse is being applied
NoDecision == [McpToolCalls |-> <<>>, SendKeys |-> <<>>, ExecCommand |-> <<>>,
               PasteMultilineContent |-> <<>>, ExecPaneSeemsBusy |-> FALSE]

\* no decision cycle is running (n: the cycles started so far; squashes: the
\* squashes made since the last cycle started, each with the history before
\* and after it)
NoCycle == [pc |-> "idle", n |-> 0, over |-> FALSE, start |-> <<>>, squashes |-> <<>>,
            busy |-> <<>>, sent |-> <<>>]

\* InteractiveSelect is not running (keys: the key events handled so far;
\* toggles: the rows on which Space was pressed, in order; returned: what
\* the last call gave back)
NoGui == [open |-> FALSE, items |-> <<>>, initiallySelected |-> {}, selected |-> {},
          cy |-> 0, keys |-> 0, toggles |-> <<>>,
          userCancelled |-> TRUE, finalSelection |-> <<>>, returned |-> "none"]

\* ------------------------------------------------------------------- Init
\* (a construction that selects every configured server)
InitManagerSelectAll(cfg) ==
    /\ Config = cfg
    /\ McpServers = cfg.McpServers
    /\ regs = <<NewRegistry(EmptyMap, <<>>)>>
    /\ McpClient = 1
    /\ conns = <<>>
    /\ pc = [p \in Procs |-> "idle"]
    /\ call = [p \in Procs |-> NoCall]
    /\ mgr = IdleMgr
    /\ nsel = 0
    /\ ncmd = 0
    /\ command = <<>>
    /\ SessionOverrides = EmptyMap
    /\ report = [kind |-> "none"]
    /\ decision = NoDecision
    /\ pos = 0
    /\ attempts = <<>>
    /\ muxCalls = <<>>
    /\ Messages = <<>>
    /\ Status = ""
    /\ WatchMode = FALSE
    /\ cycle = NoCycle
    /\ capture = <<>>
    /\ ExecHistory = <<>>
    /\ gui = NoGui

\* NewManager, given the loaded configuration
InitManager(cfg) ==
    /\ Config = cfg
    /\ McpServers = <<>>
    /\ regs = <<NewRegistry(EmptyMap, <<>>)>>
    /\ McpClient = 1
    /\ conns = <<>>
    /\ pc = [p \in Procs |-> "idle"]
    /\ call = [p \in Procs |-> NoCall]
    /\ mgr = IdleMgr
    /\ nsel = 0
    /\ ncmd = 0
    /\ command = <<>>
    /\ SessionOverrides = EmptyMap
    /\ report = [kind |-> "none"]
    /\ decision = NoDecision
    /\ pos = 0
    /\ attempts = <<>>
    /\ muxCalls = <<>>
    /\ Messages = <<>>
    /\ Status = ""
    /\ WatchMode = FALSE
    /\ cycle = NoCycle
    /\ capture = <<>>
    /\ ExecHistory = <<>>
    /\ gui = NoGui

Init == \E cfg \in RegistryConfigs : InitManager(cfg)

\* --------------------------------------------------- ListTools / CallTool
CallOps == {"ListTools", "CallTool"}

StartCall(op, serverName, mc) ==
    [NoCall EXCEPT !.op = op, !.server = serverName, !.mc = mc]

\* the invocation has returned: its locals are gone, its result is kept
Returned(c, result) == [c EXCEPT !.result = result, !.mc = 0, !.client = 0]

\* between two operations
Idle(p) == pc[p] \in {"idle", "ret"}

\* response.Tools of a server's answer to ListTools
ServerTools == <<[Name |-> "echo", Description |-> "says it again"]>>

\* ListTools: the Name of each tool of the response, in its order
toolNames(tools) == [i \in DOMAIN tools |-> tools[i].Name]

\* the arguments of the tool calls studied
ToolArguments == [text |-> "hi"]

\* the mcp.CallToolRequest that CallTool builds, after
\* toolName = serverName + "-" + toolName
CallToolRequest(serverName, toolName, arguments) ==
    [Name |-> serverName \o "-" \o toolName, Arguments |-> arguments]

\* A caller (the Manager's own task when it applies a tool call, or another
\* task) enters ListTools or CallTool on the registry the Manager holds at
\* that moment; CallTool is given a tool name that ListTools returns.
Invoke(p, op, serverName) ==
    /\ Idle(p)
    /\ \E t \in (IF op = "CallTool" THEN Range(toolNames(ServerTools)) ELSE {""}) :
          call' = [call EXCEPT ![p] =
                      [StartCall(op, serverName, McpClient) EXCEPT
                          !.tool = t,
                          !.args = IF op = "CallTool" THEN ToolArguments ELSE EmptyMap]]
    /\ pc' = [pc EXCEPT ![p] = "rlock"]
    /\ UNCHANGED <<gui, Config, McpServers, McpClient, regs, conns, mgr, nsel, agentVars>>

\* mc.mu.RLock()
RLock(p) ==
    /\ pc[p] = "rlock"
    /\ CanRLock(regs[call[p].mc])
    /\ regs' = [regs EXCEPT ![call[p].mc].readers = @ \cup {p}]
    /\ pc' = [pc EXCEPT ![p] = "lookup"]
    /\ UNCHANGED <<gui, Config, McpServers, McpClient, conns, call, mgr, nsel, agentVars>>

\* client, exists := mc.clients[serverName]; mc.mu.RUnlock()
Lookup(p) ==
    /\ pc[p] = "lookup"
    /\ LET reg == regs[call[p].mc] IN
       /\ call' = [call EXCEPT ![p].client = LookupClient(reg.clients, call[p].server),
                               ![p].absent = (call[p].server \notin DOMAIN reg.clients),
                               ![p].afterClose = (reg.closed # "no")]
       /\ regs' = [regs EXCEPT ![call[p].mc].readers = @ \ {p}]
    /\ pc' = [pc EXCEPT ![p] = "print"]
    /\ UNCHANGED <<gui, Config, McpServers, McpClient, conns, mgr, nsel, agentVars>>

\* The print of mc.clients made after the unlock, then: not found, or the
\* remote request goes out under its timeout context.
PrintAndIssue(p) ==
    /\ pc[p] = "print"
    /\ IF call[p].client = 0
         THEN /\ call' = [call EXCEPT ![p] = Returned(@, "NotFound")]
              /\ pc' = [pc EXCEPT ![p] = "ret"]
         ELSE /\ call' = [call EXCEPT
                           ![p].issued = TRUE,
                           ![p].request = IF call[p].op = "CallTool"
                                            THEN CallToolRequest(call[p].server,
                                                                 call[p].tool, call[p].args)
                                            ELSE @]
              /\ pc' = [pc EXCEPT ![p] = "remote"]
    /\ UNCHANGED <<gui, Config, McpServers, McpClient, regs, conns, mgr, nsel, agentVars>>

\* the replies with result.IsError set: the error text as the first content
\* item, no content at all, the error text after an item that is not text
ToolErrorReplies == {"ToolErrorText", "ToolErrorNoContent", "ToolErrorOtherContent"}

\* what the remote request can end with
RemoteOutcomes(op) ==
    IF op = "CallTool" THEN {"Ok", "Failed"} \cup ToolErrorReplies ELSE {"Ok", "Failed"}

TextContent(text) == [type |-> "text", text |-> text]

ImageContent == [type |-> "image", text |-> ""]

\* result.Content of a reply
ReplyContent(outcome) ==
    CASE outcome = "Ok" -> <<TextContent("done")>>
      [] outcome = "ToolErrorText" -> <<TextContent("boom")>>
      [] outcome = "ToolErrorNoContent" -> <<>>
      [] outcome = "ToolErrorOtherContent" -> <<ImageContent, TextContent("boom")>>
      [] OTHER -> <<>>

\* fmt.Errorf(format, ...): the format and the text put into it
Errorf(format, detail) == [format |-> format, detail |-> detail]

\* a nil error
NilError == [format |-> "nil", detail |-> ""]

\* what CallTool hands to its caller for each way the call can end
CallToolReturn(result) ==
    CASE result = "NotFound" ->
           [text |-> "", err |-> Errorf("MCP server '%s' not found", "")]
      [] result = "Timeout" ->
           [text |-> "", err |-> Errorf("failed to call tool '%s' on server '%s': %v",
                                        "context deadline exceeded")]
      [] result = "Failed" ->
           [text |-> "", err |-> Errorf("failed to call tool '%s' on server '%s': %v",
                                        "transport error")]
      [] result \in ToolErrorReplies ->
           LET content == ReplyContent(result) IN
           IF Len(content) > 0 /\ content[1].type = "text"
             THEN [text |-> "", err |-> Errorf("tool execution error: %s", content[1].text)]
             ELSE [text |-> "", err |-> Errorf("tool execution error", "")]
      [] OTHER ->
           LET content == ReplyContent(result) IN
           IF Len(content) > 0 /\ content[1].type = "text"
             THEN [text |-> content[1].text, err |-> NilError]
             ELSE [text |-> "", err |-> NilError]

\* the server answers (a result, a transport error, a tool error)
RemoteAnswer(p, outcome) ==
    /\ pc[p] = "remote"
    /\ outcome \in RemoteOutcomes(call[p].op)
    /\ call' = [call EXCEPT ![p] = Returned(@, outcome)]
    /\ pc' = [pc EXCEPT ![p] = "ret"]
    /\ UNCHANGED <<gui, Config, McpServers, McpClient, regs, conns, mgr, nsel, agentVars>>

\* the context's deadline passes first (10 s for ListTools, 30 s for CallTool)
RemoteTimeout(p) ==
    /\ pc[p] = "remote"
    /\ call' = [call EXCEPT ![p] = Returned(@, "Timeout")]
    /\ pc' = [pc EXCEPT ![p] = "ret"]
    /\ UNCHANGED <<gui, Config, McpServers, McpClient, regs, conns, mgr, nsel, agentVars>>

\* ------------------------------------------------------- McpClient.Close
\* mc.mu.Lock(); the range over mc.clients starts
CloseLock ==
    /\ pc[Manager] = "close_lock"
    /\ CanLock(regs[McpClient])
    /\ regs' = [regs EXCEPT ![McpClient].writer = TRUE]
    /\ mgr' = [mgr EXCEPT !.queue = DOMAIN regs[McpClient].clients,
                          !.held = Range(regs[McpClient].clients)]
    /\ pc' = [pc EXCEPT ![Manager] = "close_loop"]
    /\ UNCHANGED <<gui, Config, McpServers, McpClient, conns, call, nsel, agentVars>>

\* the next entry of the range (a map is ranged in any order): client.Close()
\* is called, with no deadline
CloseNext(serverName) ==
    /\ pc[Manager] = "close_loop"
    /\ serverName \in mgr.queue
    /\ mgr' = [mgr EXCEPT !.queue = @ \ {serverName}, !.cur = serverName]
    /\ conns' = [conns EXCEPT ![regs[McpClient].clients[serverName]].closes = @ + 1,
                              ![regs[McpClient].clients[serverName]].status = "closing"]
    /\ pc' = [pc EXCEPT ![Manager] = "close_remote"]
    /\ UNCHANGED <<gui, Config, McpServers, McpClient, regs, call, nsel, agentVars>>

\* (a Close that returns at the first close error)
QueueAfterCloseReturnErr(queue, failed) == IF failed THEN {} ELSE queue

\* the entries still to range over once client.Close() has returned err:
\* the error is printed and the range goes on
QueueAfterClose(queue, failed) == queue

\* client.Close() returns, with or without an error
CloseReturn(failed) ==
    /\ pc[Manager] = "close_remote"
    /\ conns' = [conns EXCEPT ![regs[McpClient].clients[mgr.cur]].status = "closed"]
    /\ mgr' = [mgr EXCEPT !.queue = QueueAfterClose(@, failed), !.cur = "",
                          !.failed = IF failed THEN @ \cup {mgr.cur} ELSE @]
    /\ pc' = [pc EXCEPT ![Manager] = "close_loop"]
    /\ UNCHANGED <<gui, Config, McpServers, McpClient, regs, call, nsel, agentVars>>

\* client.Close() never returns: the server does not answer and the call has
\* no deadline
CloseHang ==
    /\ pc[Manager] = "close_remote"
    /\ pc' = [pc EXCEPT ![Manager] = "close_hung"]
    /\ UNCHANGED <<gui, Config, McpServers, McpClient, regs, conns, call, mgr, nsel, agentVars>>

\* mc.clients = make(map[string]*client.Client)
ClearedClients(clients) == EmptyMap

\* return nil
CloseResult == "nil"

\* where the Manager goes on after Close(): the bring-up of selectMcpServers
\* (the new, empty McpClient is made first), or the end of the handler
AfterClose(m) ==
    IF m.task = "select"
      THEN <<"new_loop", [m EXCEPT !.queue = {}, !.held = {}, !.failed = {},
                                   !.servers = McpServers,
                                   !.i = 1, !.clients = EmptyMap, !.outcome = <<>>]>>
      ELSE <<"idle", IdleMgr>>

\* the range is over: the map is replaced, nil is returned, the deferred
\* Unlock runs
CloseFinish ==
    /\ pc[Manager] = "close_loop"
    /\ mgr.queue = {}
    /\ regs' = [regs EXCEPT ![McpClient].clients = ClearedClients(@),
                            ![McpClient].writer = FALSE,
                            ![McpClient].closed = CloseResult]
    /\ pc' = [pc EXCEPT ![Manager] = AfterClose(mgr)[1]]
    /\ mgr' = AfterClose(mgr)[2]
    /\ UNCHANGED <<gui, Config, McpServers, McpClient, conns, call, nsel, agentVars>>

\* Close() called on the current registry outside a selection
CloseCall ==
    /\ Idle(Manager)
    /\ mgr' = [IdleMgr EXCEPT !.task = "close"]
    /\ pc' = [pc EXCEPT ![Manager] = "close_lock"]
    /\ call' = [call EXCEPT ![Manager] = NoCall]
    /\ UNCHANGED <<gui, Config, McpServers, McpClient, regs, conns, nsel, agentVars>>

\* ----------------------------------------------------------- NewMcpClient
\* (a bring-up that stops at the first failing spec)
NextAfterFailureBreak(i, n) == n + 1

\* the index of the next spec once this one has failed: continue
NextAfterFailure(i, n) == i + 1

Spec_i == mgr.servers[mgr.i]

Failed(kind) ==
    /\ mgr' = [mgr EXCEPT !.outcome = Append(@, kind),
                          !.i = NextAfterFailure(mgr.i, Len(mgr.servers)),
                          !.conn = 0]
    /\ pc' = [pc EXCEPT ![Manager] = "new_loop"]

\* default: of the switch on server.Type
NewUnsupported ==
    /\ pc[Manager] = "new_loop"
    /\ mgr.i <= Len(mgr.servers)
    /\ Spec_i.Type \notin SupportedTypes
    /\ Failed("unsupported")
    /\ UNCHANGED <<gui, Config, McpServers, McpClient, regs, conns, call, nsel, agentVars>>

\* transport.NewSSE / NewStreamableHTTP returns an error
NewTransportError ==
    /\ pc[Manager] = "new_loop"
    /\ mgr.i <= Len(mgr.servers)
    /\ Spec_i.Type \in FallibleTypes
    /\ Failed("transport")
    /\ UNCHANGED <<gui, Config, McpServers, McpClient, regs, conns, call, nsel, agentVars>>

\* the transport is made, client.NewClient, and Start is called with
\* context.Background()
NewStart ==
    /\ pc[Manager] = "new_loop"
    /\ mgr.i <= Len(mgr.servers)
    /\ Spec_i.Type \in SupportedTypes
    /\ pc' = [pc EXCEPT ![Manager] = "new_start"]
    /\ UNCHANGED <<gui, Config, McpServers, McpClient, regs, conns, call, mgr, nsel, agentVars>>

NewConn(serverName, gen) ==
    [name |-> serverName, status |-> "open", closes |-> 0, gen |-> gen, stored |-> FALSE]

\* Start returns; on success Initialize is called with context.Background()
NewStartReturn(ok) ==
    /\ pc[Manager] = "new_start"
    /\ IF ok
         THEN /\ conns' = Append(conns, NewConn(Spec_i.Name, Len(regs) + 1))
              /\ mgr' = [mgr EXCEPT !.conn = Len(conns) + 1]
              /\ pc' = [pc EXCEPT ![Manager] = "new_init"]
         ELSE /\ Failed("start")
              /\ conns' = conns
    /\ UNCHANGED <<gui, Config, McpServers, McpClient, regs, call, nsel, agentVars>>

\* Start or Initialize never returns: context.Background() has no deadline
NewHang ==
    /\ pc[Manager] \in {"new_start", "new_init"}
    /\ pc' = [pc EXCEPT ![Manager] = IF pc[Manager] = "new_start"
                                        THEN "start_hung" ELSE "init_hung"]
    /\ UNCHANGED <<gui, Config, McpServers, McpClient, regs, conns, call, mgr, nsel, agentVars>>

\* Initialize returns; on success mc.clients[server.Name] = mcpClient
NewInitReturn(ok) ==
    /\ pc[Manager] = "new_init"
    /\ IF ok
         THEN /\ mgr' = [mgr EXCEPT !.clients = MapPut(@, Spec_i.Name, mgr.conn),
                                    !.outcome = Append(@, "ok"),
                                    !.i = @ + 1, !.conn = 0]
              /\ conns' = [conns EXCEPT ![mgr.conn].stored = TRUE]
              /\ pc' = [pc EXCEPT ![Manager] = "new_loop"]
         ELSE /\ Failed("initialize")
              /\ conns' = conns
    /\ UNCHANGED <<gui, Config, McpServers, McpClient, regs, call, nsel, agentVars>>

\* ------------------------------------------------- showCurrentMcpServers
\* showCurrentMcpServers calls ListTools for each selected server on the
\* Manager's own task, where no Close() runs, so each call gets the read lock
\* at once and ends by its answer or by its 10 s timeout; it changes nothing
\* but the screen.

\* /mcp current
McpCurrent ==
    /\ Idle(Manager)
    /\ cycle.pc # "exited"
    /\ pc' = [pc EXCEPT ![Manager] = "idle"]
    /\ call' = [call EXCEPT ![Manager] = NoCall]
    /\ UNCHANGED <<gui, Config, McpServers, McpClient, regs, conns, mgr, nsel, agentVars>>

\* NewMcpClient returns mc; m.McpClient = mc; showCurrentMcpServers(m)
NewReturn ==
    /\ pc[Manager] = "new_loop"
    /\ mgr.i > Len(mgr.servers)
    /\ regs' = Append(regs, NewRegistry(mgr.clients, mgr.servers))
    /\ McpClient' = Len(regs) + 1
    /\ pc' = [pc EXCEPT ![Manager] = "idle"]
    /\ mgr' = IdleMgr
    /\ UNCHANGED <<gui, Config, McpServers, conns, call, nsel, agentVars>>

\* ------------------------------------------------------ selectMcpServers
\* what InteractiveSelect can return with a nil error after Enter: the keys
\* of the selected map, in any order
Selections(serverNames) ==
    UNION {Orderings(S) : S \in SUBSET Range(serverNames)}

serverNames(cfg) == [i \in DOMAIN cfg.McpServers |-> cfg.McpServers[i].Name]

\* (a selection that leaves the registry as it is)
AfterAssignNoRebuild == "idle"

\* where selectMcpServers goes on once m.McpServers is assigned:
\* m.McpClient.Close(), then NewMcpClient(updatedMcpServers)
AfterAssign == "close_lock"

\* /mcp, /mcp list with no server configured
SelectNoServers ==
    /\ Idle(Manager)
    /\ cycle.pc # "exited"
    /\ Len(Config.McpServers) = 0
    /\ pc' = [pc EXCEPT ![Manager] = "idle"]
    /\ call' = [call EXCEPT ![Manager] = NoCall]
    /\ UNCHANGED <<gui, Config, McpServers, McpClient, regs, conns, mgr, nsel, agentVars>>

\* InteractiveSelect returns an error (the widget cannot start)
SelectError ==
    /\ Idle(Manager)
    /\ Len(Config.McpServers) > 0
    /\ pc' = [pc EXCEPT ![Manager] = "idle"]
    /\ call' = [call EXCEPT ![Manager] = NoCall]
    /\ UNCHANGED <<gui, Config, McpServers, McpClient, regs, conns, mgr, nsel, agentVars>>

\* InteractiveSelect returns names; m.McpServers = updatedMcpServers
Select(names) ==
    /\ Idle(Manager)
    /\ Len(Config.McpServers) > 0
    /\ nsel < MaxSelect
    /\ names \in Selections(serverNames(Config))
    /\ McpServers' = updatedMcpServers(Config, names)
    /\ mgr' = [IdleMgr EXCEPT !.task = "select"]
    /\ pc' = [pc EXCEPT ![Manager] = AfterAssign]
    /\ nsel' = nsel + 1
    /\ call' = [call EXCEPT ![Manager] = NoCall]
    /\ UNCHANGED <<gui, Config, McpClient, regs, conns, agentVars>>

\* The user leaves InteractiveSelect with q or Ctrl-C: it returns nil, nil, and
\* selectMcpServers goes on as with an empty selection.
SelectCancel ==
    /\ Idle(Manager)
    /\ Len(Config.McpServers) > 0
    /\ nsel < MaxSelect
    /\ McpServers' = updatedMcpServers(Config, <<>>)
    /\ mgr' = [IdleMgr EXCEPT !.task = "select", !.cancelled = TRUE]
    /\ pc' = [pc EXCEPT ![Manager] = AfterAssign]
    /\ nsel' = nsel + 1
    /\ call' = [call EXCEPT ![Manager] = NoCall]
    /\ UNCHANGED <<gui, Config, McpClient, regs, conns, agentVars>>

\* ------------------------------------------------------ InteractiveSelect
\* the rest of the state, which the widget does not touch
guiRest == <<Config, McpServers, McpClient, regs, conns, pc, call, mgr, nsel, agentVars>>

\* InteractiveSelect(items, initiallySelected) starts the widget: the globals
\* are reset, the selected map is a copy of initiallySelected, the cursor is
\* set to row 0 by layout
GuiOpen(initiallySelected) ==
    /\ ~gui.open
    /\ gui.returned = "none"
    /\ Len(Config.McpServers) > 0
    /\ initiallySelected \subseteq Range(serverNames(Config))
    /\ gui' = [NoGui EXCEPT !.open = TRUE, !.items = serverNames(Config),
                            !.initiallySelected = initiallySelected,
                            !.selected = initiallySelected]
    /\ UNCHANGED guiRest

\* (a cursor that moves down whatever the row)
cursorDownUnchecked(cy, numItems) == cy + 1

\* cursorDown(v, numItems): the row after the key
cursorDown(cy, numItems) == IF cy < numItems - 1 THEN cy + 1 ELSE cy

\* cursorUp(v): the row after the key
cursorUp(cy) == IF cy > 0 THEN cy - 1 ELSE cy

\* (a Space that only ever adds the item)
toggleSelectionAddOnly(cy, items, selected) ==
    IF cy >= 0 /\ cy < Len(items) THEN selected \cup {items[cy + 1]} ELSE selected

\* toggleSelection(v, items, selected): the selected map after Space (rows
\* count from 0)
toggleSelection(cy, items, selected) ==
    IF cy >= 0 /\ cy < Len(items)
      THEN IF items[cy + 1] \in selected
             THEN selected \ {items[cy + 1]}
             ELSE selected \cup {items[cy + 1]}
      ELSE selected

\* a key can be handled
GuiKey == gui.open /\ gui.keys < MaxKeys

\* ArrowDown or j
GuiDown ==
    /\ GuiKey
    /\ gui' = [gui EXCEPT !.cy = cursorDown(@, Len(gui.items)), !.keys = @ + 1]
    /\ UNCHANGED guiRest

\* ArrowUp or k
GuiUp ==
    /\ GuiKey
    /\ gui' = [gui EXCEPT !.cy = cursorUp(@), !.keys = @ + 1]
    /\ UNCHANGED guiRest

\* Space
GuiSpace ==
    /\ GuiKey
    /\ gui' = [gui EXCEPT !.selected = toggleSelection(gui.cy, gui.items, @),
                          !.toggles = Append(@, gui.cy),
                          !.keys = @ + 1]
    /\ UNCHANGED guiRest

\* Enter: finalSelection is filled by ranging over the selected map (in any
\* order), the main loop ends and InteractiveSelect returns finalSelection
GuiEnter(order) ==
    /\ gui.open
    /\ order \in Orderings(gui.selected)
    /\ gui' = [gui EXCEPT !.open = FALSE, !.userCancelled = FALSE,
                          !.finalSelection = order, !.returned = "names"]
    /\ UNCHANGED guiRest

\* q or Ctrl-C: the main loop ends and InteractiveSelect returns nil, nil
GuiQuit ==
    /\ gui.open
    /\ gui' = [gui EXCEPT !.open = FALSE, !.returned = "cancelled"]
    /\ UNCHANGED guiRest

\* ---------------------------------------------------------- /config
\* the keys a session may read and override
AllowedConfigKeys ==
    << K_max_capture_lines, K_max_context_size, K_wait_interval,
       K_send_keys_confirm, K_paste_multiline_confirm, K_exec_confirm,
       K_openrouter_model >>

\* a check that lets every key through
isAllowedConfigKeyAny(key) == TRUE

isAllowedConfigKey(key) ==
    \E i \in DOMAIN AllowedConfigKeys : AllowedConfigKeys[i] = key

RECURSIVE ScanDigits(_, _)
\* the number written by the digits w starts with
ScanDigits(w, acc) ==
    IF w = <<>> \/ ~IsDigit(Head(w)) THEN acc
    ELSE ScanDigits(Tail(w), acc * 10 + DigitValue(Head(w)))

\* fmt.Sscanf(value, "%d", &intVal): an optional sign and the digits that
\* follow it; what comes after them is left unread
SscanfInt(value) ==
    LET signed == value # <<>> /\ Head(value) \in {"+", "-"}
        body   == IF signed THEN Tail(value) ELSE value
        n      == ScanDigits(body, 0)
    IN  IF body = <<>> \/ ~IsDigit(Head(body))
          THEN [err |-> TRUE, val |-> 0]
          ELSE [err |-> FALSE, val |-> IF signed /\ Head(value) = "-" THEN 0 - n ELSE n]

\* the scanner's accept: the character at i is one of chars
Accept(w, i, chars) == i <= Len(w) /\ w[i] \in chars

\* fmt.Sscanf(value, "%t", &boolVal): decided by the first character; only
\* a word that starts "tr" or "fa" has to go on as "true" or "false"
SscanfBool(value) ==
    IF value = <<>> THEN [err |-> TRUE, val |-> FALSE]
    ELSE LET c == Head(value) IN
      CASE c = "0" -> [err |-> FALSE, val |-> FALSE]
        [] c = "1" -> [err |-> FALSE, val |-> TRUE]
        [] c \in {"t", "T"} ->
             [ err |-> /\ Accept(value, 2, {"r", "R"})
                       /\ ~(Accept(value, 3, {"u", "U"}) /\ Accept(value, 4, {"e", "E"})),
               val |-> TRUE ]
        [] c \in {"f", "F"} ->
             [ err |-> /\ Accept(value, 2, {"a", "A"})
                       /\ ~( /\ Accept(value, 3, {"l", "L"})
                             /\ Accept(value, 4, {"s", "S"})
                             /\ Accept(value, 5, {"e", "E"}) ),
               val |-> FALSE ]
        [] OTHER -> [err |-> FALSE, val |-> FALSE]

IntKeys == {K_max_capture_lines, K_max_context_size, K_wait_interval}
BoolKeys == {K_send_keys_confirm, K_paste_multiline_confirm, K_exec_confirm}

\* getConfigValue: the session override if there is one, else the
\* configured value, nil for a key it does not know
getConfigValue(overrides, cfg, key) ==
    IF key \in DOMAIN overrides THEN overrides[key]
    ELSE CASE key = K_max_capture_lines -> cfg.MaxCaptureLines
           [] key = K_max_context_size -> cfg.MaxContextSize
           [] key = K_wait_interval -> cfg.WaitInterval
           [] key = K_send_keys_confirm -> cfg.SendKeysConfirm
           [] key = K_paste_multiline_confirm -> cfg.PasteMultilineConfirm
           [] key = K_exec_confirm -> cfg.ExecConfirm
           [] key = K_openrouter_model -> cfg.Model
           [] OTHER -> "nil"

\* (a setter that stores what it scanned before it looks at the error)
setConfigValueStoreFirst(overrides, key, value) ==
    CASE key \in IntKeys ->
           LET r == SscanfInt(value) IN
           [err |-> IF r.err THEN "invalid integer value" ELSE "nil",
            overrides |-> MapPut(overrides, key, r.val)]
      [] key \in BoolKeys ->
           LET r == SscanfBool(value) IN
           [err |-> IF r.err THEN "invalid boolean value" ELSE "nil",
            overrides |-> MapPut(overrides, key, r.val)]
      [] key = K_openrouter_model ->
           [err |-> "nil", overrides |-> MapPut(overrides, key, value)]
      [] OTHER -> [err |-> "unknown config key", overrides |-> overrides]

\* setConfigValue: the error it returns and the overrides it leaves
setConfigValue(overrides, key, value) ==
    CASE key \in IntKeys ->
           LET r == SscanfInt(value) IN
           IF r.err THEN [err |-> "invalid integer value", overrides |-> overrides]
           ELSE [err |-> "nil", overrides |-> MapPut(overrides, key, r.val)]
      [] key \in BoolKeys ->
           LET r == SscanfBool(value) IN
           IF r.err THEN [err |-> "invalid boolean value", overrides |-> overrides]
           ELSE [err |-> "nil", overrides |-> MapPut(overrides, key, r.val)]
      [] key = K_openrouter_model ->
           [err |-> "nil", overrides |-> MapPut(overrides, key, value)]
      [] OTHER -> [err |-> "unknown config key", overrides |-> overrides]

\* m.Println of one of the handler's messages
Println(kind, key, value) == [kind |-> kind, key |-> key, value |-> value]

\* handleConfigCommand(m, args): what it prints and the overrides it leaves
handleConfigCommand(overrides, cfg, args) ==
    IF Len(args) = 0
      THEN [out |-> Println("UsageConfig", <<>>, <<>>), overrides |-> overrides]
    ELSE IF args[1] = S_get
      THEN [ out |-> IF Len(args) = 1 THEN Println("CurrentConfiguration", <<>>, <<>>)
                     ELSE IF Len(args) = 2
                       THEN IF ~isAllowedConfigKey(args[2])
                              THEN Println("NotAllowed", args[2], <<>>)
                              ELSE Println("Value", args[2],
                                           getConfigValue(overrides, cfg, args[2]))
                     ELSE Println("UsageGet", <<>>, <<>>),
             overrides |-> overrides ]
    ELSE IF args[1] = S_set
      THEN IF Len(args) # 3
             THEN [out |-> Println("UsageSet", <<>>, <<>>), overrides |-> overrides]
           ELSE IF ~isAllowedConfigKey(args[2])
             THEN [out |-> Println("NotAllowed", args[2], <<>>), overrides |-> overrides]
           ELSE LET r == setConfigValue(overrides, args[2], args[3]) IN
                IF r.err # "nil"
                  THEN [out |-> Println("ErrorSetting", args[2], r.err),
                        overrides |-> r.overrides]
                  ELSE [out |-> Println("Set", args[2], args[3]),
                        overrides |-> r.overrides]
    ELSE [out |-> Println("UnknownSubcommand", args[1], <<>>), overrides |-> overrides]

\* --------------------------------------------------------- chat history
ChatMessage(content, fromUser) == [Content |-> content, FromUser |-> fromUser]

\* system.EstimateTokenCount: an estimate that grows with the text, here one
\* token a word
EstimateTokenCount(content) == Len(content)

RECURSIVE TotalTokens(_)
\* totalTokens: the sum of the estimates of the messages
TotalTokens(messages) ==
    IF messages = <<>> THEN 0
    ELSE EstimateTokenCount(Head(messages).Content) + TotalTokens(Tail(messages))

\* m.GetMaxContextSize(): the session override if set, else the configured value
GetMaxContextSize == getConfigValue(SessionOverrides, Config, K_max_context_size)

\* (a trigger that fires at the ceiling already)
NeedSquashAtCeiling(messages, max) == TotalTokens(messages) >= max

\* the history is over the ceiling
NeedSquash(messages, max) == TotalTokens(messages) > max

\* the user turn that has no answer yet, if the history ends with one
Pending(messages) ==
    IF messages # <<>> /\ messages[Len(messages)].FromUser
      THEN <<messages[Len(messages)]>>
      ELSE <<>>

\* the synthetic message that carries the summary
SummaryMessage == ChatMessage(<<"summary">>, FALSE)

\* (a squash that keeps the summary alone)
SquashDropPending(messages) ==
    IF messages = <<>> THEN <<>> ELSE <<SummaryMessage>>

\* squash: nothing to do for a history of at most one message; else the
\* summary replaces everything but the pending user turn
Squash(messages) ==
    IF Len(messages) <= 1 THEN messages
    ELSE <<SummaryMessage>> \o Pending(messages)

\* the history a failed completion-service call leaves
HistoryAfterErrorRollBack(messages) == SubSeq(messages, 1, Len(messages) - 1)

HistoryAfterError(messages) == messages

\* the record of one squash
Squashed(before, after) == [before |-> before, after |-> after]

\* ---------------------------------------------------- transcript parser
\* The text of a prepared pane is a sequence of segments: a prompt marker,
\* which carries the exit status of the command before it, the command typed
\* at a prompt, a line of output.
PromptMarker(code) == [seg |-> "prompt", code |-> code, text |-> ""]
CommandText(text) == [seg |-> "command", code |-> 0, text |-> text]
OutputLine(text) == [seg |-> "output", code |-> 0, text |-> text]

CommandExecHistory(cmd, output, code) == [Command |-> cmd, Output |-> output, Code |-> code]

\* the parser before the first segment: no record, no block open
ParserStart == [records |-> <<>>, atPrompt |-> FALSE, open |-> FALSE,
                Command |-> "", Output |-> <<>>]

\* the parser after one more segment
ParserStep(st, seg) ==
    CASE seg.seg = "prompt" ->
           [st EXCEPT !.records = IF st.open
                                    THEN Append(@, CommandExecHistory(st.Command, st.Output,
                                                                      seg.code))
                                    ELSE @,
                      !.open = FALSE, !.atPrompt = TRUE]
      [] seg.seg = "command" ->
           IF st.atPrompt
             THEN [st EXCEPT !.open = TRUE, !.atPrompt = FALSE,
                             !.Command = seg.text, !.Output = <<>>]
             ELSE st
      [] seg.seg = "output" ->
           IF st.open THEN [st EXCEPT !.Output = Append(@, seg.text)]
           ELSE [st EXCEPT !.atPrompt = FALSE]

RECURSIVE ParserRun(_, _)
ParserRun(st, text) ==
    IF text = <<>> THEN st ELSE ParserRun(ParserStep(st, Head(text)), Tail(text))

\* (a parser that closes the block still open at the end of the text)
RecordsFlushTail(st) ==
    IF st.open THEN Append(st.records, CommandExecHistory(st.Command, st.Output, 0))
    ELSE st.records

\* the records of a parse: the blocks a prompt has closed; a block still
\* open at the end of the text is pending
Records(st) == st.records

\* parseExecPaneCommandHistory: the records of the captured text
parseExecPaneCommandHistory(text) == Records(ParserRun(ParserStart, text))

\* the text up to its last prompt marker, and the tail after it
LastPrompt(text) ==
    LET ps == {i \in DOMAIN text : text[i].seg = "prompt"} IN
    IF ps = {} THEN 0 ELSE CHOOSE i \in ps : \A j \in ps : j <= i

CutAtLastPrompt(text) == SubSeq(text, 1, LastPrompt(text))

TailAfterLastPrompt(text) == SubSeq(text, LastPrompt(text) + 1, Len(text))

\* what the pane can show next: a command is typed at a prompt, output
\* follows a command or output (or opens a truncated scrollback)
CanFollow(text, seg) ==
    CASE seg.seg = "prompt" -> TRUE
      [] seg.seg = "command" ->
           IF text = <<>> THEN FALSE ELSE text[Len(text)].seg = "prompt"
      [] seg.seg = "output" ->
           IF text = <<>> THEN TRUE ELSE text[Len(text)].seg \in {"command", "output"}

ExitCodes == {0, 1}

PaneSegments ==
    {PromptMarker(c) : c \in ExitCodes}
        \cup {CommandText("ls"), CommandText("make"), OutputLine("x")}

\* The shell in the exec pane shows one more segment.
PaneOutput(seg) ==
    /\ Len(capture) < MaxCapture
    /\ CanFollow(capture, seg)
    /\ capture' = Append(capture, seg)
    /\ UNCHANGED <<gui, Config, McpServers, McpClient, regs, conns, pc, call, mgr, nsel,
                   ncmd, command, SessionOverrides, report, decision, pos, attempts,
                   muxCalls, sessionVars, ExecHistory>>

\* --------------------------------------------------- ProcessSubCommand
\* the command names in the order the switch tests them
CommandNames ==
    << S_help, S_info, S_prepare, S_clear, S_reset, S_exit, S_squash, S_watch,
       S_config, S_mcp >>

\* prefixMatch(command, target)
prefixMatch(cmd, target) == HasPrefix(target, cmd)

\* (a switch that runs the last case that matches)
commandCaseLast(commandPrefix) ==
    LET hits == {i \in DOMAIN CommandNames :
                    \/ prefixMatch(commandPrefix, CommandNames[i])
                    \/ CommandNames[i] = S_watch /\ commandPrefix = S_w}
    IN  IF hits = {} THEN <<>>
        ELSE CommandNames[CHOOSE i \in hits : \A j \in hits : i >= j]

\* the case of the switch that a first word selects (<<>>: the default case)
commandCase(commandPrefix) ==
    LET hits == {i \in DOMAIN CommandNames :
                    \/ prefixMatch(commandPrefix, CommandNames[i])
                    \/ CommandNames[i] = S_watch /\ commandPrefix = S_w}
    IN  IF hits = {} THEN <<>>
        ELSE CommandNames[CHOOSE i \in hits : \A j \in hits : i <= j]

\* strings.Fields(strings.ToLower(command)), command given as its words
commandLower(line) == [i \in DOMAIN line |-> ToLower(line[i])]

S_list == <<"l", "i", "s", "t">>
S_current == <<"c", "u", "r", "r", "e", "n", "t">>

\* handleMcpCommand(m, args): the subcommand it runs
mcpSubcommand(args) == IF Len(args) > 0 THEN args[1] ELSE S_list

\* the command lines whose handler the Manager runs in one step: all but
\* /mcp list and /mcp current, which are the registry's steps
IsConfigLine(line) ==
    IF line = <<>> THEN TRUE
    ELSE LET parts == commandLower(line) IN
         commandCase(parts[1]) = S_mcp => mcpSubcommand(Tail(parts)) \notin {S_list, S_current}

\* system.TmuxClearPane on each of the panes named
TmuxClearPane(panes) == [kind |-> "ClearPane", key |-> <<>>, value |-> panes]

\* (a description taken from the lower-cased words)
watchDescLower(line, parts) == Tail(parts)

\* strings.Join(strings.Fields(command)[1:], " "): the words of the command
\* as typed, without the first
watchDesc(line, parts) == Tail(line)

\* m.startWatchMode(startWatch), startWatch ending in the description
startWatchMode(desc) == [kind |-> "StartWatch", key |-> <<>>, value |-> desc]

\* (a /clear that resets the status as /reset does)
StatusAfterClearIdle(status) == ""

\* the status after /clear, which assigns m.Messages and nothing else
StatusAfterClear(status) == status

\* The Manager processes one command line.
ProcessSubCommand(line) ==
    /\ Idle(Manager) /\ pos = 0 /\ cycle.pc = "idle"
    /\ ncmd < MaxCommands
    /\ IsConfigLine(line)
    /\ ncmd' = ncmd + 1
    /\ command' = line
    /\ LET parts == commandLower(line)
           case == IF Len(parts) = 0 THEN <<>> ELSE commandCase(parts[1])
       IN
       /\ ExecHistory' = IF Len(parts) > 0 /\ case = S_prepare
                           THEN parseExecPaneCommandHistory(capture)
                           ELSE ExecHistory
       /\
         IF Len(parts) = 0
           THEN /\ report' = Println("EmptyCommand", <<>>, <<>>)
                /\ UNCHANGED <<SessionOverrides, sessionVars>>
         ELSE IF case = S_help
           THEN /\ report' = Println("Help", <<>>, <<>>)
                /\ UNCHANGED <<SessionOverrides, sessionVars>>
         ELSE IF case = S_info
           THEN /\ report' = Println("Info", <<>>,
                                     [messages |-> Len(Messages),
                                      totalTokens |-> TotalTokens(Messages),
                                      max |-> GetMaxContextSize])
                /\ UNCHANGED <<SessionOverrides, sessionVars>>
         ELSE IF case = S_prepare
           THEN /\ Messages' = <<>>
                /\ report' = Println("Prepared", <<>>, <<>>)
                /\ UNCHANGED <<SessionOverrides, Status, WatchMode, cycle>>
         ELSE IF case = S_clear
           THEN /\ Messages' = <<>>
                /\ Status' = StatusAfterClear(Status)
                /\ report' = TmuxClearPane(<<"chat">>)
                /\ UNCHANGED <<SessionOverrides, WatchMode, cycle>>
         ELSE IF case = S_reset
           THEN /\ Status' = ""
                /\ Messages' = <<>>
                /\ report' = TmuxClearPane(<<"chat", "exec">>)
                /\ UNCHANGED <<SessionOverrides, WatchMode, cycle>>
         ELSE IF case = S_exit
           THEN /\ cycle' = [cycle EXCEPT !.pc = "exited"]
                /\ report' = Println("Nothing", <<>>, <<>>)
                /\ UNCHANGED <<SessionOverrides, Messages, Status, WatchMode>>
         ELSE IF case = S_squash
           THEN /\ \E ok \in BOOLEAN :
                     IF ok \/ Len(Messages) <= 1
                       THEN /\ Messages' = Squash(Messages)
                            /\ report' = Println("Nothing", <<>>, <<>>)
                       ELSE /\ Messages' = HistoryAfterError(Messages)
                            /\ report' = Println("SquashError", <<>>, <<>>)
                /\ cycle' = [cycle EXCEPT !.squashes = <<Squashed(Messages, Messages')>>]
                /\ UNCHANGED <<SessionOverrides, Status, WatchMode>>
         ELSE IF case = S_watch
           THEN IF Len(line) > 1
                  THEN /\ Status' = "running"
                       /\ WatchMode' = TRUE
                       /\ report' = startWatchMode(watchDesc(line, parts))
                       /\ UNCHANGED <<SessionOverrides, Messages, cycle>>
                  ELSE /\ report' = Println("UsageWatch", <<>>, <<>>)
                       /\ UNCHANGED <<SessionOverrides, sessionVars>>
         ELSE IF case = S_config
           THEN LET r == handleConfigCommand(SessionOverrides, Config, Tail(parts)) IN
                  /\ report' = r.out
                  /\ SessionOverrides' = r.overrides
                  /\ UNCHANGED sessionVars
         ELSE IF case = S_mcp
           THEN /\ report' = IF mcpSubcommand(Tail(parts)) = S_help
                               THEN Println("McpHelp", <<>>, <<>>)
                               ELSE Println("UnknownMcpSubcommand",
                                            mcpSubcommand(Tail(parts)), <<>>)
                /\ UNCHANGED <<SessionOverrides, sessionVars>>
         ELSE /\ report' = Println("UnknownCommand", parts[1], <<>>)
              /\ UNCHANGED <<SessionOverrides, sessionVars>>
    /\ UNCHANGED <<gui, Config, McpServers, McpClient, regs, conns, pc, call, mgr, nsel,
                   decision, pos, attempts, muxCalls, capture>>

\* the values a user types
ValueWords == {W_5, W_12a, W_True, W_Gpt4}

\* the keys a user types
KeyWords ==
    Range(AllowedConfigKeys) \cup {K_debug, K_api_key, K_whitelist, W_Exec_Confirm}

\* the command lines a user types
CmdInputs ==
    { <<>>, <<S_config>>, <<W_cfg>>, <<W_Conf, S_get>>, <<S_config, W_del, K_debug>>,
      <<S_config, S_set, K_exec_confirm>>,
      <<S_config, S_set, K_exec_confirm, W_True, W_True>>,
      <<W_Conf, W_Set, K_wait_interval, W_12a>>,
      <<W_Conf, W_Set, K_api_key, W_Gpt4>> }
      \cup {<<S_config, S_get, k>> : k \in KeyWords}
      \cup {<<S_config, S_set, k, v>> : k \in KeyWords, v \in ValueWords}
      \cup { <<S_help>>, <<S_info>>, <<S_prepare>>, <<S_clear>>, <<S_reset>>, <<S_exit>>,
             <<S_squash>>, <<S_watch, W_logs>>, <<S_w>>, <<S_mcp, S_help>>,
             <<S_mcp, W_del>> }

\* the command lines that try the switch: every name in full, shortened and
\* ambiguous first words, upper case, words that no name starts with
SwitchInputs ==
    { <<>>, <<S_help>>, <<S_info>>, <<S_prepare>>, <<S_clear>>, <<S_reset>>, <<S_exit>>,
      <<S_squash>>, <<S_watch, W_logs>>, <<S_w>>, <<S_w, W_Logs>>, <<S_config>>,
      <<W_Conf, S_get>>, <<S_config, S_set, K_max_context_size, W_5>>,
      <<S_mcp, S_help>>, <<S_mcp, W_del>>, <<W_slash>>, <<W_c>>, <<W_HELP>>,
      <<W_helpx>>, <<W_cfg>>, <<S_config, S_get, K_max_context_size>>,
      <<S_reset, W_logs>> }

\* ----------------------------------------------- confirmation policy
\* A candidate command and a pattern are sequences of words; a pattern
\* matches a command that contains it.
Matches(pattern, text) ==
    \E i \in 0..(Len(text) - Len(pattern)) :
        SubSeq(text, i + 1, i + Len(pattern)) = pattern

MatchesAny(patterns, text) == \E i \in DOMAIN patterns : Matches(patterns[i], text)

ActionKinds == <<"McpToolCalls", "SendKeys", "ExecCommand", "PasteMultilineContent">>

\* the setting that asks for confirmation of an action of that kind
ConfirmKey(kind) ==
    CASE kind = "SendKeys" -> K_send_keys_confirm
      [] kind = "ExecCommand" -> K_exec_confirm
      [] kind = "PasteMultilineContent" -> K_paste_multiline_confirm

\* a policy that looks at the allow patterns first
PolicyAllowFirst(text, allow, deny, confirm) ==
    IF MatchesAny(allow, text) THEN "execute"
    ELSE IF MatchesAny(deny, text) THEN "refuse"
    ELSE IF confirm THEN "prompt" ELSE "execute"

\* the verdict on one candidate command
Policy(text, allow, deny, confirm) ==
    IF MatchesAny(deny, text) THEN "refuse"
    ELSE IF MatchesAny(allow, text) THEN "execute"
    ELSE IF confirm THEN "prompt" ELSE "execute"

\* ------------------------------------------------------ action dispatcher
Item(kind, text) == [kind |-> kind, text |-> text]

ItemsOf(kind, texts) == [i \in DOMAIN texts |-> Item(kind, texts[i])]

\* (every item of the decision, whatever the pane does)
ItemsIgnoreBusy(d) ==
    ItemsOf("McpToolCalls", d.McpToolCalls) \o
    ItemsOf("SendKeys", d.SendKeys) \o
    ItemsOf("ExecCommand", d.ExecCommand) \o
    ( IF d.PasteMultilineContent = <<>> THEN <<>>
      ELSE <<Item("PasteMultilineContent", d.PasteMultilineContent)>> )

\* the items of a decision in the order they are dispatched; with the pane
\* busy only the tool calls are
Items(d) ==
    ItemsOf("McpToolCalls", d.McpToolCalls) \o
    ( IF d.ExecPaneSeemsBusy THEN <<>>
      ELSE ItemsOf("SendKeys", d.SendKeys) \o
           ItemsOf("ExecCommand", d.ExecCommand) \o
           ( IF d.PasteMultilineContent = <<>> THEN <<>>
             ELSE <<Item("PasteMultilineContent", d.PasteMultilineContent)>> ) )

\* what becomes of an item: a tool call is not gated
Outcome(item, verdict, approved) ==
    IF item.kind = "McpToolCalls" THEN "called"
    ELSE CASE verdict = "refuse" -> "refused"
           [] verdict = "execute" -> "issued"
           [] verdict = "prompt" -> IF approved THEN "issued" ELSE "declined"

\* the confirm setting in force for an action of that kind
ConfirmSetting(kind) == getConfigValue(SessionOverrides, Config, ConfirmKey(kind))

\* (a dispatcher that pastes without asking the policy)
VerdictPasteUngated(item) ==
    IF item.kind \in {"McpToolCalls", "PasteMultilineContent"} THEN "execute"
    ELSE Policy(item.text, Config.WhitelistPatterns, Config.BlacklistPatterns,
                ConfirmSetting(item.kind))

\* the verdict on an item: the policy gates sendKeys, exec and paste, each
\* with the confirm setting of its kind; a tool call is not gated
Verdict(item) ==
    IF item.kind = "McpToolCalls" THEN "execute"
    ELSE Policy(item.text, Config.WhitelistPatterns, Config.BlacklistPatterns,
                ConfirmSetting(item.kind))

\* a dispatcher that gives up the decision at the first item not issued
NextItemStopAtRefusal(i, n, outcome) ==
    IF outcome \in {"refused", "declined"} THEN n + 1 ELSE i + 1

\* the item dispatched after item i of n
NextItem(i, n, outcome) == i + 1

\* The completion service has answered with decision d.
DispatchStart(d) ==
    /\ Idle(Manager) /\ pos = 0
    /\ decision' = d
    /\ pos' = 1
    /\ attempts' = <<>>
    /\ muxCalls' = <<>>
    /\ UNCHANGED <<gui, Config, McpServers, McpClient, regs, conns, pc, call, mgr, nsel, paneVars,
                   ncmd, command, SessionOverrides, report, sessionVars>>

\* The next item passes through the policy and is issued, or skipped and
\* reported; approved is the user's answer should the policy prompt.
DispatchItem(approved) ==
    /\ pos \in DOMAIN Items(decision)
    /\ LET item    == Items(decision)[pos]
           verdict == Verdict(item)
           outcome == Outcome(item, verdict, approved)
       IN  /\ attempts' = Append(attempts, [item |-> item, verdict |-> verdict,
                                            outcome |-> outcome])
           /\ muxCalls' = IF outcome = "issued" THEN Append(muxCalls, item) ELSE muxCalls
           /\ pos' = NextItem(pos, Len(Items(decision)), outcome)
    /\ UNCHANGED <<gui, Config, McpServers, McpClient, regs, conns, pc, call, mgr, nsel, paneVars,
                   ncmd, command, SessionOverrides, report, decision, sessionVars>>

\* Every item has been dispatched: the cycle is over.
DispatchEnd ==
    /\ pos = Len(Items(decision)) + 1
    /\ decision' = NoDecision
    /\ pos' = 0
    /\ attempts' = <<>>
    /\ muxCalls' = <<>>
    /\ UNCHANGED <<gui, Config, McpServers, McpClient, regs, conns, pc, call, mgr, nsel, paneVars,
                   ncmd, command, SessionOverrides, report, sessionVars>>

\* candidate commands and patterns
T_rm_rf_x == <<"rm", "-rf", "x">>
T_ls == <<"ls">>
T_git_push == <<"git", "push">>
P_rm == <<"rm">>
P_rm_rf == <<"rm", "-rf">>
P_ls == <<"ls">>
P_git == <<"git">>

ToolCall == [ServerName |-> "a", ToolName |-> "t"]

\* the decisions the completion service may return
Decisions ==
    [ McpToolCalls : {<<>>, <<ToolCall>>},
      SendKeys : {<<>>, <<T_ls>>},
      ExecCommand : {<<>>, <<T_rm_rf_x>>, <<T_git_push, T_rm_rf_x, T_ls>>},
      PasteMultilineContent : {<<>>, T_git_push},
      ExecPaneSeemsBusy : BOOLEAN ]

\* configurations that differ in their pattern lists and confirm settings
PolicyConfig(allow, deny, confirm) ==
    [DefaultConfig(<<>>) EXCEPT !.WhitelistPatterns = allow, !.BlacklistPatterns = deny,
                                !.SendKeysConfirm = confirm, !.ExecConfirm = confirm,
                                !.PasteMultilineConfirm = confirm]

PolicyConfigs ==
    { PolicyConfig(allow, deny, confirm) :
        allow \in {<<>>, <<P_ls, P_rm>>},
        deny \in {<<>>, <<P_git, P_rm_rf>>},
        confirm \in BOOLEAN }

\* the command lines that override a confirm setting
PolicyInputs ==
    {<<S_config, S_set, k, v>> : k \in {K_exec_confirm, K_send_keys_confirm},
                                 v \in {W_true, W_false}}

\* -------------------------------------------------------- decision cycle
\* what the user types, the instruction of a watch tick, what the agent says
U_fix_it == <<"fix", "it">>
U_run_the_tests == <<"run", "the", "tests">>
WatchInstruction == <<"check", "new", "content">>
Reply == <<"ok">>

UserInputs == {U_fix_it, U_run_the_tests}

\* A cycle starts: the input joins the history as the pending user turn.
BeginCycle(u) ==
    /\ Idle(Manager) /\ pos = 0
    /\ cycle.pc = "idle"
    /\ cycle.n < MaxCycles
    /\ Messages' = Append(Messages, ChatMessage(u, TRUE))
    /\ Status' = "running"
    /\ cycle' = [cycle EXCEPT !.pc = "budget", !.n = @ + 1,
                              !.over = TotalTokens(Messages') > GetMaxContextSize,
                              !.start = Messages', !.squashes = <<>>,
                              !.sent = <<>>]
    /\ UNCHANGED <<gui, Config, McpServers, McpClient, regs, conns, pc, call, mgr, nsel, paneVars,
                   ncmd, command, SessionOverrides, report, decision, pos, attempts,
                   muxCalls, WatchMode>>

\* The user submits a message.
ProcessUserMessage(u) == ~WatchMode /\ BeginCycle(u)

\* Watch mode: the wait interval is over, the next tick runs a cycle.
WatchTick == WatchMode /\ BeginCycle(WatchInstruction)

\* The estimate is at or below the ceiling: on to the completion call.
BudgetOk ==
    /\ cycle.pc = "budget"
    /\ ~NeedSquash(Messages, GetMaxContextSize)
    /\ cycle' = [cycle EXCEPT !.pc = "call"]
    /\ UNCHANGED <<gui, Config, McpServers, McpClient, regs, conns, pc, call, mgr, nsel, paneVars,
                   ncmd, command, SessionOverrides, report, decision, pos, attempts,
                   muxCalls, Messages, Status, WatchMode>>

\* The estimate is over the ceiling: squash.  The summary is asked of the
\* completion service, which answers (ok) or fails.
BudgetSquash(ok) ==
    /\ cycle.pc = "budget"
    /\ NeedSquash(Messages, GetMaxContextSize)
    /\ IF ok \/ Len(Messages) <= 1
         THEN /\ Messages' = Squash(Messages)
              /\ cycle' = [cycle EXCEPT !.pc = "call",
                               !.squashes = Append(@, Squashed(Messages, Messages'))]
              /\ UNCHANGED <<Status, report>>
         ELSE /\ Messages' = HistoryAfterError(Messages)
              /\ report' = Println("SquashError", <<>>, <<>>)
              /\ Status' = ""
              /\ cycle' = [cycle EXCEPT !.pc = "idle"]
    /\ UNCHANGED <<gui, Config, McpServers, McpClient, regs, conns, pc, call, mgr, nsel, paneVars,
                   ncmd, command, SessionOverrides, decision, pos, attempts,
                   muxCalls, WatchMode>>

\* the index of the first message that is not from the user (0: none)
FirstNonUser(chatMessages) ==
    LET nu == {i \in DOMAIN chatMessages : ~chatMessages[i].FromUser} IN
    IF nu = {} THEN 0 ELSE CHOOSE i \in nu : \A j \in nu : i <= j

\* (a conversion that gives the system role to the first message not from
\* the user)
einoMessagesFirstNonUser(chatMessages) ==
    [ i \in DOMAIN chatMessages |->
        [ Role |-> IF chatMessages[i].FromUser THEN "user"
                   ELSE IF i = FirstNonUser(chatMessages) THEN "system"
                   ELSE "assistant",
          Content |-> chatMessages[i].Content ] ]

\* GetResponseFromChatMessages: the messages handed to the chat model
einoMessages(chatMessages) ==
    [ i \in DOMAIN chatMessages |->
        [ Role |-> IF i = 1 /\ ~chatMessages[i].FromUser THEN "system"
                   ELSE IF chatMessages[i].FromUser THEN "user"
                   ELSE "assistant",
          Content |-> chatMessages[i].Content ] ]

\* The completion service fails: the user is told, the cycle ends.
CompletionError ==
    /\ cycle.pc = "call"
    /\ Messages' = HistoryAfterError(Messages)
    /\ report' = Println("CompletionError", <<>>, <<>>)
    /\ Status' = ""
    /\ cycle' = [cycle EXCEPT !.pc = "idle", !.sent = einoMessages(Messages)]
    /\ UNCHANGED <<gui, Config, McpServers, McpClient, regs, conns, pc, call, mgr, nsel, paneVars,
                   ncmd, command, SessionOverrides, decision, pos, attempts,
                   muxCalls, WatchMode>>

\* The completion service answers with decision d: its items are dispatched.
CompletionOk(d) ==
    /\ cycle.pc = "call"
    /\ decision' = d
    /\ pos' = 1
    /\ attempts' = <<>>
    /\ muxCalls' = <<>>
    /\ report' = Println("Decision", <<>>, <<>>)
    /\ cycle' = [cycle EXCEPT !.pc = "dispatch", !.sent = einoMessages(Messages)]
    /\ UNCHANGED <<gui, Config, McpServers, McpClient, regs, conns, pc, call, mgr, nsel, paneVars,
                   ncmd, command, SessionOverrides, Messages, Status, WatchMode>>

\* (a cycle that shows a status of its own while watching)
StatusAfterCycleWatching(watchMode) == IF watchMode THEN "watching" ELSE "waiting"

\* the status a finished cycle leaves: waiting for the user, or still
\* running while the watch goes on
StatusAfterCycle(watchMode) == IF watchMode THEN "running" ELSE "waiting"

\* Every item has been dispatched: the answer joins the history.
CycleEnd ==
    /\ cycle.pc = "dispatch"
    /\ pos = Len(Items(decision)) + 1
    /\ Messages' = Append(Messages, ChatMessage(Reply, FALSE))
    /\ Status' = StatusAfterCycle(WatchMode)
    /\ cycle' = [cycle EXCEPT !.pc = "idle",
                              !.busy = IF WatchMode
                                         THEN Append(@, decision.ExecPaneSeemsBusy)
                                         ELSE @]
    /\ decision' = NoDecision
    /\ pos' = 0
    /\ attempts' = <<>>
    /\ muxCalls' = <<>>
    /\ UNCHANGED <<gui, Config, McpServers, McpClient, regs, conns, pc, call, mgr, nsel, paneVars,
                   ncmd, command, SessionOverrides, report, WatchMode>>

\* the decisions of the cycles studied
CycleDecisions ==
    { NoDecision,
      [NoDecision EXCEPT !.McpToolCalls = <<ToolCall>>, !.ExecCommand = <<T_ls>>,
                         !.ExecPaneSeemsBusy = TRUE],
      [NoDecision EXCEPT !.McpToolCalls = <<ToolCall>>, !.SendKeys = <<T_ls>>,
                         !.ExecCommand = <<T_rm_rf_x, T_ls>>,
                         !.PasteMultilineContent = T_git_push] }

\* a configuration with a low ceiling
CycleConfig ==
    [PolicyConfig(<<>>, <<P_rm_rf>>, FALSE) EXCEPT !.MaxContextSize = ConfiguredCeiling]

\* the command lines of the sessions studied: a higher ceiling, a squash on
\* request, watch mode, the commands that empty the history, the exit
CycleInputs ==
    { <<S_config, S_set, K_max_context_size, W_5>>, <<S_squash>>, <<S_watch, W_logs>>,
      <<S_clear>>, <<S_reset>>, <<S_prepare>>, <<S_exit>> }

\* ------------------------------------------------------------------- Next
\* the commands and handler steps of the Manager's task
ManagerNext ==
    \/ CloseCall
    \/ CloseLock
    \/ \E s \in ServerNames : CloseNext(s)
    \/ \E f \in BOOLEAN : CloseReturn(f)
    \/ CloseHang
    \/ CloseFinish
    \/ NewUnsupported
    \/ NewTransportError
    \/ NewStart
    \/ \E ok \in BOOLEAN : NewStartReturn(ok)
    \/ \E ok \in BOOLEAN : NewInitReturn(ok)
    \/ NewHang
    \/ NewReturn
    \/ McpCurrent
    \/ SelectNoServers
    \/ SelectError
    \/ \E names \in Selections(serverNames(Config)) : Select(names)

\* the steps of ListTools and CallTool run by process p
CallNext(p) ==
    \/ \E op \in CallOps, s \in ServerNames : Invoke(p, op, s)
    \/ RLock(p)
    \/ Lookup(p)
    \/ PrintAndIssue(p)
    \/ \E o \in RemoteOutcomes("CallTool") : RemoteAnswer(p, o)
    \/ RemoteTimeout(p)

\* The registry used from several tasks: the Manager's task selects servers
\* and closes, other tasks call tools.
Next == ManagerNext \/ \E p \in Readers : CallNext(p)

Spec == Init /\ [][Next]_vars

\* The registry used from the Manager's task alone.
NextMcp == ManagerNext \/ SelectCancel \/ CallNext(Manager)

SpecMcp == Init /\ [][NextMcp]_vars

\* the command surface alone
NextCmd ==
    \/ \E c \in CmdInputs : ProcessSubCommand(c)
    \/ SelectNoServers
    \/ McpCurrent

SpecCmd == InitManager(DefaultConfig(<<>>)) /\ [][NextCmd]_vars

\* the dispatcher under every policy configuration
NextDispatch ==
    \/ \E c \in PolicyInputs : ProcessSubCommand(c)
    \/ \E d \in Decisions : DispatchStart(d)
    \/ \E approved \in BOOLEAN : DispatchItem(approved)
    \/ DispatchEnd

SpecDispatch == (\E cfg \in PolicyConfigs : InitManager(cfg)) /\ [][NextDispatch]_vars

\* the exec pane and /prepare
NextPane ==
    \/ \E seg \in PaneSegments : PaneOutput(seg)
    \/ ProcessSubCommand(<<S_prepare>>)

SpecPane == InitManager(DefaultConfig(<<>>)) /\ [][NextPane]_vars

\* a session of command lines that try the switch
NextSwitch == \E c \in SwitchInputs : ProcessSubCommand(c)

SpecSwitch == InitManager(DefaultConfig(<<>>)) /\ [][NextSwitch]_vars

\* the selection widget, for every preselection of the configured names
NextGui ==
    \/ \E pre \in SUBSET ServerNames : GuiOpen(pre)
    \/ GuiDown
    \/ GuiUp
    \/ GuiSpace
    \/ \E order \in Orderings(gui.selected) : GuiEnter(order)
    \/ GuiQuit

SpecGui == InitManager(DefaultConfig(McpConfigs2)) /\ [][NextGui]_vars

\* the decision cycles of a session
NextCycle ==
    \/ \E c \in CycleInputs : ProcessSubCommand(c)
    \/ \E u \in UserInputs : ProcessUserMessage(u)
    \/ WatchTick
    \/ BudgetOk
    \/ \E ok \in BOOLEAN : BudgetSquash(ok)
    \/ CompletionError
    \/ \E d \in CycleDecisions : CompletionOk(d)
    \/ \E approved \in BOOLEAN : DispatchItem(approved)
    \/ CycleEnd

SpecCycle == InitManager(CycleConfig) /\ [][NextCycle]_vars

\* A whole session: the user selects the configured servers, the shell in
\* the exec pane produces output, then messages and command lines follow.
SessionSegments == {PromptMarker(0), CommandText("ls")}

\* the cycles and the pane segments of a whole session
MaxSessionCycles == 1
MaxSessionCapture == 3

SessionInputs ==
    { <<S_prepare>>, <<S_reset>>, <<S_clear>>, <<S_config, S_set, K_wait_interval, W_5>>,
      <<S_exit>> }

\* the selection is the first thing done; the pane shows its output while
\* the Manager is at its prompt, before the first message or command
NextSession ==
    \/ /\ nsel = 0 /\ capture = <<>> /\ ncmd = 0 /\ cycle.n = 0
       /\ Select(serverNames(Config))
    \/ CloseLock
    \/ CloseFinish
    \/ NewStart
    \/ NewStartReturn(TRUE)
    \/ \E ok \in BOOLEAN : NewInitReturn(ok)
    \/ NewReturn
    \/ \E seg \in SessionSegments :
          /\ Idle(Manager) /\ ncmd = 0 /\ cycle.n = 0
          /\ Len(capture) < MaxSessionCapture
          /\ PaneOutput(seg)
    \/ \E c \in SessionInputs : ProcessSubCommand(c)
    \/ cycle.n < MaxSessionCycles /\ ProcessUserMessage(U_fix_it)
    \/ BudgetOk
    \/ CompletionOk(NoDecision)
    \/ CycleEnd

SpecSession == InitManager(DefaultConfig(McpConfigs2)) /\ [][NextSession]_vars

\* Every task keeps running its own code; a reader waiting in RLock gets the
\* lock once the writer unlocks (sync.RWMutex wakes the readers that wait);
\* a deadline that was set passes.  Nothing makes a server answer.
FairSpec ==
    /\ Spec
    /\ WF_vars(CloseLock \/ CloseFinish \/ (\E s \in ServerNames : CloseNext(s)))
    /\ \A p \in Readers :
          /\ SF_vars(RLock(p))
          /\ WF_vars(Lookup(p) \/ PrintAndIssue(p) \/ RemoteTimeout(p))

\* ================================================================ claims

\* the Manager is between line 268 (m.McpServers assigned) and line 274
\* (m.McpClient assigned) of selectMcpServers
InSelect == ~Idle(Manager) /\ mgr.task = "select"

\* NewMcpClient is at its return statement
AtNewReturn == pc[Manager] = "new_loop" /\ mgr.i > Len(mgr.servers)

\* Close() has ranged over the whole map
AtCloseEnd == pc[Manager] = "close_loop" /\ mgr.queue = {}

ConnIds == DOMAIN conns

\* C1: for a server name that is not a key of the connection map, ListTools
\* and CallTool return the not-found error, issue no remote call, and are
\* never left waiting for good, Close() running at the same time included.
C1_AbsentServerNotFoundNeverHangs ==
    \A p \in Procs :
        /\ (call[p].absent /\ pc[p] \in {"print", "remote", "ret"}) =>
               /\ ~call[p].issued
               /\ call[p].result \in {"none", "NotFound"}
               /\ pc[p] # "remote"
        /\ ~( /\ pc[p] = "rlock"
              /\ call[p].server \notin DOMAIN regs[call[p].mc].clients
              /\ regs[call[p].mc].writer
              /\ pc[Manager] = "close_hung" )

\* C3: when NewMcpClient returns, every spec of the list was attempted and the
\* map holds exactly the names of the specs that did not fail; so with one
\* failing spec among N the other N-1 servers are connected.
C3_PartialBringUp ==
    AtNewReturn =>
        /\ Len(mgr.outcome) = Len(mgr.servers)
        /\ DOMAIN mgr.clients =
              {mgr.servers[i].Name : i \in {j \in DOMAIN mgr.outcome : mgr.outcome[j] = "ok"}}

\* C3 witness: a bring-up of two specs returns, the first spec failed and the
\* second one is connected
C3_Witness ==
    /\ AtNewReturn
    /\ Len(mgr.servers) = 2
    /\ mgr.outcome[1] # "ok"
    /\ mgr.outcome[2] = "ok"
    /\ DOMAIN mgr.clients = {mgr.servers[2].Name}

\* C6: no ListTools/CallTool invocation is in progress on a connection while
\* Close() holds the lock and closes, no remote call is issued on or running
\* against a connection that Close() has closed, and the map is not read
\* while it is written.
C6_WritersExcludeReaders ==
    \A p \in Procs :
        /\ (pc[p] \in {"print", "remote"} /\ call[p].client # 0) => ~regs[call[p].mc].writer
        /\ pc[p] = "remote" => conns[call[p].client].status = "open"
        /\ ~(pc[p] = "print" /\ call[p].mc = McpClient /\ AtCloseEnd)

\* C7: an operation on one server that does not return never keeps an
\* operation on another server from completing: not a call on a connected
\* server, not the close of another connection, not the bring-up of another
\* spec.
C7_NoCrossServerStall ==
    /\ \A p \in Procs :
          ~( /\ pc[Manager] = "close_hung"
             /\ pc[p] = "rlock"
             /\ call[p].mc = McpClient
             /\ call[p].server \in DOMAIN regs[McpClient].clients
             /\ call[p].server # mgr.cur )
    /\ ~(pc[Manager] = "close_hung" /\ mgr.queue # {})
    /\ ~(pc[Manager] \in {"start_hung", "init_hung"} /\ mgr.i < Len(mgr.servers))

C9_CloseReleasesAll ==
    /\ AtCloseEnd => \A c \in mgr.held : conns[c].closes = 1 /\ conns[c].status = "closed"
    /\ \A r \in DOMAIN regs :
          regs[r].closed # "no" => regs[r].closed = "nil" /\ regs[r].clients = EmptyMap
    /\ \A c \in ConnIds : conns[c].closes <= 1
    /\ \A p \in Procs :
          call[p].afterClose => ~call[p].issued /\ call[p].result \in {"none", "NotFound"}

\* C9 witness: Close() has ranged over two connections, one close failed,
\* both were attempted; and a later call was answered not found
C9_Witness ==
    \/ /\ AtCloseEnd
       /\ Cardinality(mgr.held) = 2
       /\ Cardinality(mgr.failed) = 1
       /\ \A c \in mgr.held : conns[c].closes = 1
    \/ FALSE

\* C10: every ListTools and CallTool invocation returns in the end.
C10_EveryCallReturns ==
    \A p \in Readers : (pc[p] = "rlock") ~> (pc[p] = "ret")


\* a command line "/config set <key> <value>" whose key, as the handler
\* receives it, is not on the allow-list
IsDisallowedSet(line) ==
    /\ Len(line) = 4
    /\ commandCase(commandLower(line)[1]) = S_config
    /\ commandLower(line)[2] = S_set
    /\ commandLower(line)[3] \notin Range(AllowedConfigKeys)

\* C5: "/config set <key> <value>" with a key outside the allow-list prints
\* the not-allowed message and changes neither SessionOverrides nor Config;
\* so at all times every key of SessionOverrides is on the allow-list.
C5_DisallowedKeyRejected ==
    /\ [](DOMAIN SessionOverrides \subseteq Range(AllowedConfigKeys))
    /\ []((ncmd > 0 /\ IsDisallowedSet(command)) => report.kind = "NotAllowed")
    /\ [][(ncmd' # ncmd /\ IsDisallowedSet(command')) =>
             (SessionOverrides' = SessionOverrides /\ Config' = Config)]_vars

\* an override is in place and a later set of a key off the list was refused
C5_Witness ==
    /\ ncmd = 2 /\ IsDisallowedSet(command)
    /\ report.kind = "NotAllowed" /\ report.key = K_debug
    /\ DOMAIN SessionOverrides = {K_exec_confirm}

\* the attempts of the given kind
AttemptsOf(kind) == {i \in DOMAIN attempts : attempts[i].item.kind = kind}

KindRank(kind) == CHOOSE r \in DOMAIN ActionKinds : ActionKinds[r] = kind

AtDispatchEnd == pos = Len(Items(decision)) + 1

\* C2: no sendKeys, exec or paste call issued to the multiplexer carries a
\* command that matches a deny pattern, whatever the allow patterns, the
\* confirm settings and their session overrides are; such an item is refused.
C2_DenyTakesPrecedence ==
    /\ \A i \in DOMAIN muxCalls :
          ~MatchesAny(Config.BlacklistPatterns, muxCalls[i].text)
    /\ \A i \in DOMAIN attempts :
          ( /\ attempts[i].item.kind # "McpToolCalls"
            /\ MatchesAny(Config.BlacklistPatterns, attempts[i].item.text) )
              => attempts[i].outcome = "refused"

\* a command that matches a deny pattern and an allow pattern, with the
\* confirmation switched off for the session, was refused
C2_Witness ==
    /\ K_exec_confirm \in DOMAIN SessionOverrides
    /\ ~SessionOverrides[K_exec_confirm]
    /\ \E i \in DOMAIN attempts :
          /\ attempts[i].item = Item("ExecCommand", T_rm_rf_x)
          /\ MatchesAny(Config.WhitelistPatterns, T_rm_rf_x)
          /\ MatchesAny(Config.BlacklistPatterns, T_rm_rf_x)
          /\ attempts[i].outcome = "refused"

\* C4: the items are attempted tool calls first, then sendKeys, then
\* execCommands, then pasteContent, each field in its own order, and when
\* the cycle ends every item of the decision has been attempted, the ones
\* after a refused or declined item included.
C4_FixedOrderNoShortCircuit ==
    /\ \A i \in DOMAIN attempts, j \in DOMAIN attempts :
          i < j => KindRank(attempts[i].item.kind) <= KindRank(attempts[j].item.kind)
    /\ (pos > 0 /\ AtDispatchEnd) =>
          /\ [i \in AttemptsOf("McpToolCalls") |-> attempts[i].item.text]
                = decision.McpToolCalls
          /\ ~decision.ExecPaneSeemsBusy =>
                /\ Cardinality(AttemptsOf("SendKeys")) = Len(decision.SendKeys)
                /\ Cardinality(AttemptsOf("ExecCommand")) = Len(decision.ExecCommand)
                /\ \A i \in DOMAIN decision.ExecCommand :
                      attempts[Len(decision.McpToolCalls) + Len(decision.SendKeys) + i].item
                          = Item("ExecCommand", decision.ExecCommand[i])
                /\ Cardinality(AttemptsOf("PasteMultilineContent")) =
                      (IF decision.PasteMultilineContent = <<>> THEN 0 ELSE 1)

\* a decision with all four fields has ended; an exec item was refused, a
\* later one attempted, and the paste after them too
C4_Witness ==
    /\ pos > 0 /\ AtDispatchEnd /\ Len(attempts) = 6
    /\ attempts[1].item.kind = "McpToolCalls"
    /\ attempts[2].item.kind = "SendKeys"
    /\ attempts[3].outcome = "refused"
    /\ attempts[4].outcome = "refused"
    /\ attempts[5].item = Item("ExecCommand", T_ls)
    /\ attempts[6].item.kind = "PasteMultilineContent"

\* the error texts in the reply of a tool that reported an error
RemoteErrorTexts(result) ==
    {ReplyContent(result)[i].text :
        i \in {j \in DOMAIN ReplyContent(result) : ReplyContent(result)[j].type = "text"}}

\* C11: a CallTool that has returned tells its caller which failure it was:
\* not-found, timeout and tool error each have an error of their own, which no
\* other failure produces, and the error of a tool error carries the text the
\* remote tool reported.
C11_DistinctFailureConditions ==
    \A p \in Procs :
        (pc[p] = "ret" /\ call[p].op = "CallTool") =>
            LET e == CallToolReturn(call[p].result).err IN
            /\ call[p].result = "NotFound" =>
                  \A r \in RemoteOutcomes("CallTool") \cup {"Timeout"} :
                      CallToolReturn(r).err # e
            /\ call[p].result = "Timeout" =>
                  e.format # CallToolReturn("Failed").err.format
            /\ call[p].result \in ToolErrorReplies =>
                  /\ e.format \notin { CallToolReturn(r).err.format :
                                         r \in {"NotFound", "Timeout", "Failed"} }
                  /\ \A t \in RemoteErrorTexts(call[p].result) : e.detail = t

\* ------------------------------------------------------------ squash
\* C12: a squash of an empty history leaves it empty, a squash of a history
\* of one message leaves that message, and after any squash the pending
\* user message of the history, if it ended with one, is in the history
\* word for word.
C12_SquashKeepsPending ==
    \A i \in DOMAIN cycle.squashes :
        LET q == cycle.squashes[i] IN
        /\ q.before = <<>> => q.after = <<>>
        /\ Len(q.before) = 1 => q.after = q.before
        /\ \A k \in DOMAIN Pending(q.before) :
              \E j \in DOMAIN q.after : q.after[j] = Pending(q.before)[k]

\* a history of several messages that ended with a pending user message
\* was squashed
C12_Witness ==
    \E i \in DOMAIN cycle.squashes :
        LET q == cycle.squashes[i] IN
        /\ Len(q.before) >= 2
        /\ Pending(q.before) # <<>>
        /\ q.after # q.before
        /\ q.after[Len(q.after)] = q.before[Len(q.before)]

\* a squash on request met an empty history
C12_WitnessEmpty ==
    \E i \in DOMAIN cycle.squashes :
        cycle.squashes[i].before = <<>> /\ command = <<S_squash>>

AtCompletionCall == cycle.pc = "call"

C13_WitnessAtCeiling ==
    /\ AtCompletionCall
    /\ TotalTokens(cycle.start) = GetMaxContextSize
    /\ cycle.squashes = <<>>

\* ---------------------------------------------------------- watch mode
\* the number of items a decision carries
ItemCount(d) ==
    Len(d.McpToolCalls) + Len(d.SendKeys) + Len(d.ExecCommand)
        + (IF d.PasteMultilineContent = <<>> THEN 0 ELSE 1)

\* C14: in watch mode, during a tick whose decision says the pane seems
\* busy, no sendKeys, exec or paste is attempted or issued, the tool calls
\* alone are; a tick whose decision does not say so attempts every item of
\* its decision.
C14_BusyTickIssuesNothing ==
    (WatchMode /\ cycle.pc = "dispatch") =>
        /\ decision.ExecPaneSeemsBusy =>
              /\ muxCalls = <<>>
              /\ \A i \in DOMAIN attempts : attempts[i].item.kind = "McpToolCalls"
              /\ AtDispatchEnd => Len(attempts) = Len(decision.McpToolCalls)
        /\ (~decision.ExecPaneSeemsBusy /\ AtDispatchEnd) =>
              /\ Len(attempts) = ItemCount(decision)
              /\ \A i \in DOMAIN attempts :
                    attempts[i].outcome = "issued" =>
                        \E j \in DOMAIN muxCalls : muxCalls[j] = attempts[i].item

\* the tick after a busy tick: the pane is not busy any more and commands
\* have been issued
C14_Witness ==
    /\ WatchMode /\ cycle.pc = "dispatch" /\ AtDispatchEnd
    /\ cycle.busy # <<>> /\ cycle.busy[Len(cycle.busy)]
    /\ ~decision.ExecPaneSeemsBusy
    /\ muxCalls # <<>>

\* a busy tick whose decision carried an exec command has ended
C14_WitnessBusy ==
    /\ WatchMode /\ cycle.pc = "dispatch" /\ AtDispatchEnd
    /\ decision.ExecPaneSeemsBusy
    /\ decision.ExecCommand # <<>>
    /\ Len(attempts) = 1

\* ------------------------------------------------- completion failure
\* C15: a failed call of the completion service ends the cycle and nothing
\* else: the failure is reported, no item is dispatched, the loop is ready
\* for the next input, and the history is the one before the call, the
\* user message that started the cycle being its last message.
C15_FailedCallKeepsHistory ==
    [][ (cycle.pc = "call" /\ cycle'.pc # "call" /\ report'.kind = "CompletionError") =>
            /\ Messages' = Messages
            /\ Messages' # <<>>
            /\ Messages'[Len(Messages')] = cycle.start[Len(cycle.start)]
            /\ Messages'[Len(Messages')].FromUser
            /\ cycle'.pc = "idle"
            /\ pos' = 0 /\ attempts' = attempts /\ muxCalls' = muxCalls
            /\ decision' = decision ]_vars

\* the completion call of a cycle has failed and the loop is idle again
C15_Witness ==
    /\ cycle.pc = "idle"
    /\ report.kind = "CompletionError"
    /\ Messages # <<>>
    /\ Pending(Messages) # <<>>

\* ---------------------------------------------------- transcript parser
\* C16: the records parsed from a capture are the records parsed from the
\* capture cut at its last prompt marker: the tail after it, a command in
\* progress, gives no record; and once a prompt marker ends the tail, a
\* parse gives the same records followed by the record of the tail's
\* command, with its output and the exit status of that marker.
C16_PendingTail ==
    [][ ncmd' # ncmd =>
          LET tail == TailAfterLastPrompt(capture) IN
          /\ ExecHistory' = parseExecPaneCommandHistory(CutAtLastPrompt(capture))
          /\ \A c \in ExitCodes :
                parseExecPaneCommandHistory(Append(capture, PromptMarker(c))) =
                    IF LastPrompt(capture) > 0 /\ tail # <<>>
                      THEN Append(ExecHistory',
                                  CommandExecHistory(tail[1].text,
                                      [i \in 1..(Len(tail) - 1) |-> tail[i + 1].text], c))
                      ELSE ExecHistory' ]_vars

\* a capture with a completed command and a command in progress with output
\* has been parsed: one record
C16_Witness ==
    /\ ncmd > 0
    /\ Len(TailAfterLastPrompt(capture)) >= 2
    /\ Len(ExecHistory) = 1
    /\ ExecHistory = parseExecPaneCommandHistory(capture)

\* --------------------------------------------------- one policy, three kinds
PaneKinds == {"SendKeys", "ExecCommand", "PasteMultilineContent"}

ToolCallsNotGated ==
    \A i \in DOMAIN attempts :
        attempts[i].item.kind = "McpToolCalls" =>
            attempts[i].verdict = "execute" /\ attempts[i].outcome = "called"

IsIntegerWord(w) ==
    LET body == IF w # <<>> /\ Head(w) \in {"+", "-"} THEN Tail(w) ELSE w IN
    body # <<>> /\ \A i \in DOMAIN body : IsDigit(body[i])

\* a /config set of an allow-listed key with a value that is not of the
\* key's type
IsMalformedSet(line) ==
    /\ Len(line) = 4
    /\ LET parts == commandLower(line) IN
       /\ commandCase(parts[1]) = S_config
       /\ parts[2] = S_set
       /\ IF parts[3] \in IntKeys THEN ~IsIntegerWord(parts[4])
          ELSE IF parts[3] \in BoolKeys THEN parts[4] \notin {W_true, W_false}
          ELSE FALSE

\* C18: a /config set of an allow-listed key whose value is not an integer
\* (for the three integer keys) or not true/false (for the three confirm
\* flags) prints the error and leaves SessionOverrides as it was.
C18_MalformedValueRejected ==
    [][ (ncmd' # ncmd /\ IsMalformedSet(command')) =>
            /\ report'.kind = "ErrorSetting"
            /\ SessionOverrides' = SessionOverrides ]_vars

\* ------------------------------------------------- overrides shadow Config
\* the field of Config that a key names
ConfigField(cfg, key) ==
    CASE key = K_max_capture_lines -> cfg.MaxCaptureLines
      [] key = K_max_context_size -> cfg.MaxContextSize
      [] key = K_wait_interval -> cfg.WaitInterval
      [] key = K_send_keys_confirm -> cfg.SendKeysConfirm
      [] key = K_paste_multiline_confirm -> cfg.PasteMultilineConfirm
      [] key = K_exec_confirm -> cfg.ExecConfirm
      [] key = K_openrouter_model -> cfg.Model

\* the value a word denotes for a key, where it denotes one: the integer
\* written, true or false in any case, the model name as written
Denotes(key, w) ==
    IF key \in IntKeys THEN IsIntegerWord(w)
    ELSE IF key \in BoolKeys THEN ToLower(w) \in {W_true, W_false}
    ELSE TRUE

Denoted(key, w) ==
    IF key \in IntKeys THEN SscanfInt(w).val
    ELSE IF key \in BoolKeys THEN ToLower(w) = W_true
    ELSE w

\* C19: no command changes Config; a read of an allow-listed key gives the
\* Config value while the key has no override; a successful /config set of
\* key k to a value makes the reads of k give that value, and any other
\* command leaves what the reads of k give; /config get prints what a read
\* gives.
C19_OverridesShadowConfig ==
    [][ /\ Config' = Config
        /\ \A k \in Range(AllowedConfigKeys) :
              k \notin DOMAIN SessionOverrides =>
                  getConfigValue(SessionOverrides, Config, k) = ConfigField(Config, k)
        /\ report'.kind = "Value" =>
              report'.value = getConfigValue(SessionOverrides', Config', report'.key)
        /\ ncmd' # ncmd =>
              \A k \in Range(AllowedConfigKeys) :
                  IF report'.kind = "Set" /\ report'.key = k
                    THEN Denotes(k, command'[4]) =>
                           getConfigValue(SessionOverrides', Config', k)
                               = Denoted(k, command'[4])
                    ELSE getConfigValue(SessionOverrides', Config', k)
                           = getConfigValue(SessionOverrides, Config, k) ]_vars

\* ------------------------------------------------------ frame of commands
\* a /config set with a key and a value
IsSetLine(line) ==
    /\ Len(line) = 4
    /\ commandCase(commandLower(line)[1]) = S_config
    /\ commandLower(line)[2] = S_set

\* C20: SessionOverrides changes only in the step of a /config set that
\* reports success: any other command, a /config set that is rejected, and
\* the /mcp handlers leave it as it was.
C20_OnlySetChangesOverrides ==
    [][ IF ncmd' # ncmd /\ IsSetLine(command') /\ report'.kind = "Set"
          THEN TRUE
          ELSE SessionOverrides' = SessionOverrides ]_vars

\* an override is in place and a /reset has run after it
C20_Witness ==
    /\ ncmd = 2
    /\ command = <<S_reset>>
    /\ DOMAIN SessionOverrides # {}

\* an override is in place and a /config set with a value that does not
\* scan has been rejected after it
C20_WitnessRejected ==
    /\ ncmd = 2
    /\ IsSetLine(command)
    /\ report.kind = "ErrorSetting"
    /\ DOMAIN SessionOverrides # {}

\* ------------------------------------------------------ append-only history
IsPrefix(a, b) == Len(a) <= Len(b) /\ SubSeq(b, 1, Len(a)) = a

\* b is a with a prefix replaced by the summary message
IsSquashOf(a, b) ==
    \E k \in 1..Len(a) : b = <<SummaryMessage>> \o SubSeq(a, k + 1, Len(a))

\* the commands that empty the history
ClearingCommands == {S_prepare, S_clear, S_reset}

IsClearingLine(line) ==
    IF line = <<>> THEN FALSE
    ELSE commandCase(commandLower(line)[1]) \in ClearingCommands

\* C21 as stated: every step leaves the history a prefix of the new
\* history, or replaces a prefix of it by the summary message.
C21_AppendOnlyButSquash ==
    [][IsPrefix(Messages, Messages') \/ IsSquashOf(Messages, Messages')]_vars

\* C21: every step leaves the history a prefix of the new history, or
\* replaces a prefix of it by the summary message, or is a /prepare, /clear
\* or /reset, which leave the history empty.
C21_AppendOnlyButSquashAndClear ==
    [][ \/ IsPrefix(Messages, Messages')
        \/ IsSquashOf(Messages, Messages')
        \/ ncmd' # ncmd /\ IsClearingLine(command') /\ Messages' = <<>> ]_vars

\* the first command of a session, given after a cycle, was a /clear and
\* the history is empty
C21_Witness ==
    /\ ncmd = 1 /\ command = <<S_clear>>
    /\ cycle.n > 0 /\ cycle.pc = "idle"
    /\ Messages = <<>>

\* ------------------------------------------------------ roles of messages
\* a completion call is made in this step
CompletionCall == cycle.pc = "call" /\ cycle'.pc # "call"

SameOrderAndContent(chatMessages, sent) ==
    /\ Len(sent) = Len(chatMessages)
    /\ \A i \in DOMAIN chatMessages :
          /\ sent[i].Content = chatMessages[i].Content
          /\ chatMessages[i].FromUser => sent[i].Role = "user"

\* C22 as stated: the list sent has the order, length and contents of the
\* history, a message from the user has the user role, the first message
\* not from the user has the system role wherever it stands, every other
\* message not from the user the assistant role.
C22_FirstNonUserIsSystem ==
    [][ CompletionCall =>
          /\ SameOrderAndContent(Messages, cycle'.sent)
          /\ \A i \in DOMAIN Messages :
                ~Messages[i].FromUser =>
                    cycle'.sent[i].Role = IF i = FirstNonUser(Messages) THEN "system"
                                          ELSE "assistant" ]_vars

\* C22: the list sent has the order, length and contents of the history, a
\* message from the user has the user role, the first message of the
\* history has the system role if it is not from the user, and every other
\* message not from the user has the assistant role, also when it is the
\* first such message; so at most one message has the system role.
C22_HeadNonUserIsSystem ==
    [][ CompletionCall =>
          /\ SameOrderAndContent(Messages, cycle'.sent)
          /\ \A i \in DOMAIN Messages :
                ~Messages[i].FromUser =>
                    cycle'.sent[i].Role = IF i = 1 THEN "system" ELSE "assistant"
          /\ Cardinality({i \in DOMAIN cycle'.sent : cycle'.sent[i].Role = "system"}) <= 1
      ]_vars

\* a history that starts with a user message and holds a reply was sent:
\* the reply went as assistant, no message as system
C22_Witness ==
    /\ Len(cycle.sent) >= 3
    /\ cycle.sent[1].Role = "user"
    /\ cycle.sent[2].Role = "assistant"
    /\ \A i \in DOMAIN cycle.sent : cycle.sent[i].Role # "system"

\* a history that starts with the summary was sent: the summary went as system
C22_WitnessSystem ==
    /\ Len(cycle.sent) >= 2
    /\ cycle.sent[1] = [Role |-> "system", Content |-> SummaryMessage.Content]

\* --------------------------------------------- selection and registry
\* no selection is under way (between the assignment of m.McpServers and
\* that of m.McpClient the old registry is still the current one)
SelectionSettled == mgr.task # "select"

SelectedNames == {McpServers[i].Name : i \in DOMAIN McpServers}

\* the selected servers are configured ones, the registry connects selected
\* ones only, and before the first selection both are empty
SelectionWithinConfig ==
    SelectionSettled =>
        /\ Range(McpServers) \subseteq Range(Config.McpServers)
        /\ DOMAIN regs[McpClient].clients \subseteq SelectedNames
        /\ nsel = 0 => McpServers = <<>> /\ regs[McpClient].clients = EmptyMap

\* C23: no step changes the configured server list; whenever no selection is
\* under way the selected servers are a subset of the configured servers and
\* the names the registry holds a connection for are a subset of the
\* selected names; before the first selection both are empty.
C23_SelectionWithinConfig ==
    [][ /\ Config' = Config
        /\ SelectionWithinConfig
        /\ SelectionWithinConfig' ]_vars

\* two selections were made; two servers are selected and one of them could
\* not be connected
C23_Witness ==
    /\ SelectionSettled
    /\ nsel = 2
    /\ Len(McpServers) = 2
    /\ Cardinality(DOMAIN regs[McpClient].clients) = 1
    /\ Len(Config.McpServers) = 2

\* ------------------------------------------------------- session status
\* the values GetPrompt tells apart (the empty string is idle)
StatusValues == {"", "running", "waiting", "done"}

\* the Manager is at its prompt
ReadyForCommand == Idle(Manager) /\ pos = 0 /\ cycle.pc = "idle"

\* a step of the cycle under way
CycleStep ==
    \/ BudgetOk
    \/ \E ok \in BOOLEAN : BudgetSquash(ok)
    \/ CompletionError
    \/ \E d \in CycleDecisions : CompletionOk(d)
    \/ \E approved \in BOOLEAN : DispatchItem(approved)
    \/ CycleEnd

C24_WitnessExit ==
    /\ cycle.pc = "exited"
    /\ cycle.n >= 1
    /\ command = <<S_exit>>

\* ------------------------------------------------- choice of the command
\* the command names in the order of the statement
NamesInOrder ==
    << S_help, S_info, S_prepare, S_clear, S_reset, S_exit, S_squash, S_watch,
       S_config, S_mcp >>

\* the first name in that order that starts with w (<<>>: none does)
FirstNameStartingWith(w) ==
    LET hits == {i \in DOMAIN NamesInOrder : IsPrefix(w, NamesInOrder[i])}
    IN  IF hits = {} THEN <<>>
        ELSE NamesInOrder[CHOOSE i \in hits : \A j \in hits : i <= j]

ConfigReports ==
    {"UsageConfig", "UsageGet", "UsageSet", "Value", "Set", "NotAllowed",
     "ErrorSetting", "CurrentConfiguration", "UnknownSubcommand"}

\* the operation a command step has performed, told from what it printed,
\* called and ended (<<>>: the unknown-command message)
OperationPerformed ==
    LET k == report'.kind IN
    IF k = "Help" THEN S_help
    ELSE IF k = "Info" THEN S_info
    ELSE IF k = "Prepared" THEN S_prepare
    ELSE IF k = "ClearPane"
      THEN IF report'.value = <<"chat">> THEN S_clear ELSE S_reset
    ELSE IF k = "Nothing" /\ cycle'.pc = "exited" THEN S_exit
    ELSE IF k \in {"Nothing", "SquashError"} THEN S_squash
    ELSE IF k \in {"StartWatch", "UsageWatch"} THEN S_watch
    ELSE IF k \in ConfigReports THEN S_config
    ELSE IF k \in {"McpHelp", "UnknownMcpSubcommand"} THEN S_mcp
    ELSE <<>>

\* C25: a command line with a first word w runs the operation of the first
\* command, in the order /help, /info, /prepare, /clear, /reset, /exit,
\* /squash, /watch, /config, /mcp, whose name starts with the lower-cased w,
\* and that one only; when no name does, the unknown-command message is
\* printed and no state changes.
C25_FirstPrefixMatchSelects ==
    [][ ncmd' # ncmd /\ command' # <<>> =>
          LET w == ToLower(command'[1]) IN
          /\ OperationPerformed = FirstNameStartingWith(w)
          /\ FirstNameStartingWith(w) = <<>> =>
                /\ report' = Println("UnknownCommand", w, <<>>)
                /\ UNCHANGED <<gui, Config, McpServers, McpClient, regs, conns, pc, call, mgr,
                               nsel, SessionOverrides, decision, pos, attempts, muxCalls,
                               sessionVars, paneVars>> ]_vars

\* the ambiguous /c has run /clear after a /watch: the history is cleared,
\* the overrides and the watch are as they were
C25_Witness ==
    /\ ncmd = 2
    /\ command = <<W_c>>
    /\ report = TmuxClearPane(<<"chat">>)
    /\ WatchMode

\* a word that no name starts with: the unknown-command message
C25_WitnessUnknown ==
    /\ command = <<W_helpx>>
    /\ report = Println("UnknownCommand", W_helpx, <<>>)

\* the bare slash has run /help, the upper-case word too
C25_WitnessSlash ==
    /\ command \in {<<W_slash>>, <<W_HELP>>}
    /\ report.kind = "Help"

\* ------------------------------------------------------------- /watch
\* the step processes a /watch command line
WatchCommandStep ==
    /\ ncmd' # ncmd
    /\ command' # <<>>
    /\ FirstNameStartingWith(ToLower(command'[1])) = S_watch

\* C26: /watch with a description sets the status to running and watchMode
\* to true in the step that starts the watch, and hands the watch the words
\* of the description as they were typed; /watch without a description
\* prints the usage message and leaves status, watchMode and history as
\* they were.
C26_WatchStartsWithDescription ==
    [][ WatchCommandStep =>
          IF Len(command') > 1
            THEN /\ Status' = "running"
                 /\ WatchMode'
                 /\ report'.kind = "StartWatch"
                 /\ report'.value = Tail(command')
            ELSE /\ report' = Println("UsageWatch", <<>>, <<>>)
                 /\ UNCHANGED <<Status, WatchMode, Messages>> ]_vars

\* /w Logs has started the watch with the description Logs
C26_Witness ==
    /\ command = <<S_w, W_Logs>>
    /\ report = startWatchMode(<<W_Logs>>)
    /\ Status = "running"
    /\ WatchMode

\* /w alone after a watch was started: the usage message, the watch goes on
C26_WitnessUsage ==
    /\ command = <<S_w>>
    /\ report.kind = "UsageWatch"
    /\ WatchMode

\* ----------------------------------------------------- /reset and /clear
\* what /reset and /clear are to leave alone
SessionRest == <<SessionOverrides, ExecHistory, McpServers, McpClient, regs, conns>>

\* the step processes a command line whose first word selects name
CommandStep(name) ==
    /\ ncmd' # ncmd
    /\ command' # <<>>
    /\ FirstNameStartingWith(ToLower(command'[1])) = name

\* C27: /reset leaves an empty history and the idle status; /clear leaves an
\* empty history and the status it found; both leave SessionOverrides,
\* ExecHistory, the selected servers and the registry with its connections
\* as they were.
C27_ResetAndClearFrame ==
    [][ /\ CommandStep(S_reset) =>
              Messages' = <<>> /\ Status' = "" /\ UNCHANGED SessionRest
        /\ CommandStep(S_clear) =>
              Messages' = <<>> /\ Status' = Status /\ UNCHANGED SessionRest ]_vars

\* /reset was processed after a cycle, with servers selected and connected
\* and a parsed exec history: history and status are reset, the rest is there
C27_Witness ==
    /\ command = <<S_reset>>
    /\ report = TmuxClearPane(<<"chat", "exec">>)
    /\ cycle.n >= 1
    /\ Messages = <<>>
    /\ Status = ""
    /\ ExecHistory # <<>>
    /\ McpServers # <<>>
    /\ regs[McpClient].clients # EmptyMap

\* /clear was processed after a cycle and an override: the status is still
\* waiting, the override is there
C27_WitnessClear ==
    /\ command = <<S_clear>>
    /\ report = TmuxClearPane(<<"chat">>)
    /\ cycle.n >= 1
    /\ Messages = <<>>
    /\ Status = "waiting"
    /\ SessionOverrides # EmptyMap

\* ---------------------------------------------- a cancelled selection
\* the selection under way in the state reached was left with q or Ctrl-C
CancelledSelection == mgr'.task = "select" /\ mgr'.cancelled

\* C28: a selection that the user cancels changes neither the selected
\* servers nor the registry: no step of it deselects a server, replaces the
\* registry or closes a connection.
C28_CancelKeepsSelection ==
    [][ CancelledSelection =>
          /\ McpServers' = McpServers
          /\ McpClient' = McpClient
          /\ regs'[McpClient].clients = regs[McpClient].clients
          /\ \A c \in DOMAIN conns : conns'[c].status = conns[c].status ]_vars

\* ------------------------------------------------------ connection leaks
\* the connection is held by a registry map: the current registry's, an
\* earlier one's, or the map of the registry under construction
InSomeMap(c) ==
    \/ \E n \in DOMAIN mgr.clients : mgr.clients[n] = c
    \/ \E r \in DOMAIN regs : \E n \in DOMAIN regs[r].clients : regs[r].clients[n] = c

\* C29: every connection that Start has returned successfully is held by a
\* registry map or has been given Close (the connection whose Initialize is
\* under way is still in the hands of the bring-up and is not counted).
C29_NoConnectionLeak ==
    \A c \in DOMAIN conns :
        \/ c = mgr.conn
        \/ InSomeMap(c)
        \/ conns[c].status \in {"closing", "closed"}

\* ------------------------------------------------ the tool that is called
\* C30: a CallTool for a connected server and a tool name that ListTools
\* returns sends the server a request for the tool of exactly that name, with
\* the arguments it was given.
C30_RequestNamesTheTool ==
    \A p \in Procs :
        call[p].op = "CallTool" /\ call[p].issued =>
            /\ call[p].request.Name = call[p].tool
            /\ call[p].request.Arguments = call[p].args

\* ----------------------------------------------------- set, then get
\* a /config get with a key
IsGetLine(line) ==
    /\ Len(line) = 3
    /\ commandCase(commandLower(line)[1]) = S_config
    /\ commandLower(line)[2] = S_get

\* C31: a /config get of key k entered right after a successful /config set
\* of k to the word v reports the value that v denotes: the integer written,
\* true or false, and for openrouter.model the word as typed, letter case
\* included.
C31_SetGetRoundTrip ==
    [][ ( /\ ncmd' # ncmd
          /\ report.kind = "Set"
          /\ Denotes(report.key, command[4])
          /\ IsGetLine(command')
          /\ commandLower(command')[3] = report.key )
        => /\ report'.kind = "Value"
           /\ report'.value = Denoted(report.key, command[4]) ]_vars

\* ---------------------------------------------------------------- /exit
\* C32: in the state in which the process has ended by /exit, every
\* connection the registry holds has been closed.
C32_ExitClosesConnections ==
    cycle.pc = "exited" =>
        \A n \in DOMAIN regs[McpClient].clients :
            conns[regs[McpClient].clients[n]].status = "closed"

\* ------------------------------------------------- the selection widget
RECURSIVE AfterToggles(_, _, _)
\* the set that toggling the items of the rows given, one after the other,
\* makes of a set of names
AfterToggles(names, items, rows) ==
    IF rows = <<>> THEN names
    ELSE LET item == items[Head(rows) + 1] IN
         AfterToggles((names \ {item}) \cup ({item} \ names), items, Tail(rows))

\* C33: the cursor row stays within 0 .. number of items - 1; a Space changes
\* the membership of the item on the cursor row and of no other item; while
\* the widget runs, the selection is what the toggles made of the
\* preselected names (so two toggles of one item cancel); Enter returns the
\* names of that set, each once.
C33_WidgetSelection ==
    [][ /\ gui'.open => gui'.cy \in 0 .. Len(gui'.items) - 1
        /\ Len(gui'.toggles) > Len(gui.toggles) =>
              LET item == gui.items[gui.cy + 1] IN
              /\ (item \in gui'.selected) # (item \in gui.selected)
              /\ gui'.selected \ {item} = gui.selected \ {item}
        /\ gui'.open =>
              gui'.selected = AfterToggles(gui'.initiallySelected, gui'.items, gui'.toggles)
        /\ gui'.returned = "names" =>
              /\ Range(gui'.finalSelection)
                    = AfterToggles(gui'.initiallySelected, gui'.items, gui'.toggles)
              /\ Len(gui'.finalSelection) = Cardinality(Range(gui'.finalSelection))
      ]_vars

\* Enter was pressed after the preselected item was toggled twice and the
\* other once: both names are returned
C33_Witness ==
    /\ gui.returned = "names"
    /\ gui.toggles = <<1, 1, 0>>
    /\ gui.initiallySelected = {"b"}
    /\ Range(gui.finalSelection) = {"a", "b"}

====
